---- MODULE Spec2Model ----
(***************************************************************************)
(* Model of the LED animation engine (LEDAnimationEngine.ts), the playback *)
(* store (animationStore.ts), the playback controls (PlaybackControls.tsx, *)
(* Transport.tsx, AnimationCanvas.tsx) and the export loops                *)
(* (LEDAnimationEngine.exportSequence, ExportControls.tsx).                *)
(*                                                                         *)
(* Number representation.  JavaScript numbers are modelled in fixed point: *)
(*   - times (Date.now(), startTime, currentTime, performance.now()) are   *)
(*     counted in thirds of a millisecond (Ms ticks per millisecond), so   *)
(*     that 1000/60, 1000/30 and 1000/15 ms are whole numbers;             *)
(*   - pulseScale, speeds, intensities and sines are in thousandths;       *)
(*   - angles are in milliradians;                                         *)
(*   - coordinates are in hundredths of a scene unit;                      *)
(*   - brightness values are in thousandths of a brightness unit.          *)
(* The frame count of an export is computed with an emulation of IEEE-754  *)
(* double arithmetic (JsDiv, JsMul, JsFloor), because the result of        *)
(* Math.floor depends on the rounding of the division.                     *)
(***************************************************************************)
EXTENDS Integers, Sequences, FiniteSets, TLC

VARIABLES now, lastFrameTime, settings, storeSettings, shape, playbackState, store,
          exportSettings, ledGrid, exp, frames, inputs, cycleTime, media, animatedPoints,
          animationId, disposals, overlap, resetAt, undoStack, redoStack, maxStackSize

\* the animation loop's request and the dispose() calls made so far
lifecycle == <<animationId, disposals>>

\* the fields of the UndoRedoManager
history == <<undoStack, redoStack, maxStackSize>>

vars == <<now, lastFrameTime, settings, storeSettings, shape, playbackState, store,
          exportSettings, ledGrid, exp, frames, inputs, cycleTime, media, animatedPoints,
          lifecycle, overlap, resetAt, history>>

(***************************************************************************)
(* Bounds of the model and program constants.                              *)
(***************************************************************************)
MaxNow == 180            \* last wall-clock instant explored (thirds of ms)
TimeStep == 30           \* granularity of the passage of time (10 ms)
MaxInputs == 2           \* playback controls used in one behaviour
MaxExports == 1          \* export runs started in one behaviour
MaxDisposals == 2        \* dispose() calls in one behaviour
EasingHorizon == 6000    \* last instant of a paused session (2 s)
StackLimit == 3          \* largest maxStackSize of an UndoRedoManager

Ms == 3                  \* time ticks per millisecond (fixed-point scale)
targetFPS == 60
FrameInterval == (1000 * Ms) \div targetFPS      \* 1000 / targetFPS ms
StepMs == (1000 * Ms) \div 60                    \* Transport: 1000 / 60 ms
LottieFps == 30
LottiePreviewFps == 15
AfterEffectsFps == 30

Abs(x) == IF x < 0 THEN -x ELSE x
Max(a, b) == IF a > b THEN a ELSE b
Min(a, b) == IF a < b THEN a ELSE b
\* division that truncates toward zero, as a JavaScript number scaled back
\* to fixed point does for either sign
TDiv(a, b) == IF a >= 0 THEN a \div b ELSE -((-a) \div b)

(***************************************************************************)
(* IEEE-754 double arithmetic on positive values, for Math.floor((T/1000)  *)
(* * fps).  A natural number is a little-endian sequence of limbs in base  *)
(* 2^15; a double is [m, e] with value m * 2^e and 2^52 <= m < 2^53.        *)
(***************************************************************************)
Limb == 32768

RECURSIVE Pow2(_)
Pow2(n) == IF n = 0 THEN 1 ELSE 2 * Pow2(n - 1)

RECURSIVE BitLen(_)
BitLen(n) == IF n = 0 THEN 0 ELSE 1 + BitLen(n \div 2)

RECURSIVE BigNorm(_)
BigNorm(a) ==
  IF Len(a) > 0 /\ a[Len(a)] = 0 THEN BigNorm(SubSeq(a, 1, Len(a) - 1)) ELSE a

RECURSIVE BigFromInt(_)
BigFromInt(n) == IF n = 0 THEN <<>> ELSE <<n % Limb>> \o BigFromInt(n \div Limb)

RECURSIVE BigToInt(_)
BigToInt(a) == IF Len(a) = 0 THEN 0 ELSE a[1] + Limb * BigToInt(Tail(a))

BigBitLen(a) ==
  LET n == BigNorm(a)
  IN  IF Len(n) = 0 THEN 0 ELSE (Len(n) - 1) * 15 + BitLen(n[Len(n)])

RECURSIVE BigMulCarry(_, _, _)
BigMulCarry(a, s, carry) ==
  IF Len(a) = 0
  THEN BigFromInt(carry)
  ELSE LET v == a[1] * s + carry
       IN  <<v % Limb>> \o BigMulCarry(Tail(a), s, v \div Limb)

BigMulSmall(a, s) == BigNorm(BigMulCarry(a, s, 0))

BigAddSmall(a, s) == BigNorm(BigMulCarry(a, 1, s))

\* quotient and remainder of a by the small divisor d, most significant
\* limb first
RECURSIVE BigDivFrom(_, _, _, _)
BigDivFrom(a, d, i, rem) ==
  IF i = 0
  THEN [q |-> <<>>, r |-> rem]
  ELSE LET v    == rem * Limb + a[i]
           rest == BigDivFrom(a, d, i - 1, v % d)
       IN  [q |-> rest.q \o <<v \div d>>, r |-> rest.r]

BigDivSmall(a, d) ==
  LET x == BigDivFrom(a, d, Len(a), 0) IN [q |-> BigNorm(x.q), r |-> x.r]

RECURSIVE BigShl(_, _)
BigShl(a, k) ==
  IF k = 0 THEN a
  ELSE LET j == Min(k, 14) IN BigShl(BigMulSmall(a, Pow2(j)), k - j)

RECURSIVE BigShr(_, _)
BigShr(a, k) ==
  IF k = 0 THEN a
  ELSE LET j == Min(k, 14) IN BigShr(BigDivSmall(a, Pow2(j)).q, k - j)

\* round-to-nearest, ties-to-even, of q + r/d
RoundEven(q, r, d) ==
  IF 2 * r > d \/ (2 * r = d /\ Len(q) > 0 /\ q[1] % 2 = 1)
  THEN BigAddSmall(q, 1) ELSE q

\* renormalise a mantissa that rounding carried up to 2^53
JsNormal(m, e) ==
  IF BigBitLen(m) = 54 THEN [m |-> BigDivSmall(m, 2).q, e |-> e + 1]
  ELSE [m |-> m, e |-> e]

\* the double nearest to t / d, for integers 0 < t < 2^30 and 0 < d < 2^14
JsDiv(t, d) ==
  LET k0 == 53 + BitLen(d) - BitLen(t)
      q0 == BigDivSmall(BigShl(BigFromInt(t), k0), d)
      k  == IF BigBitLen(q0.q) = 54 THEN k0 - 1 ELSE k0
      qr == BigDivSmall(BigShl(BigFromInt(t), k), d)
  IN  JsNormal(RoundEven(qr.q, qr.r, d), -k)

\* the double nearest to x * s, for a double x and an integer 0 < s < 2^14
JsMul(x, s) ==
  LET p  == BigMulSmall(x.m, s)
      sh == BigBitLen(p) - 53
      qr == BigDivSmall(p, Pow2(sh))
  IN  IF sh = 0 THEN [m |-> p, e |-> x.e]
      ELSE JsNormal(RoundEven(qr.q, qr.r, Pow2(sh)), x.e + sh)

\* Math.floor of a double below 2^30
JsFloor(x) ==
  IF x.e >= 0 THEN BigToInt(BigShl(x.m, x.e)) ELSE BigToInt(BigShr(x.m, -x.e))

(***************************************************************************)
(* Playback state (types/animation.ts, PlaybackState) and the time-derived *)
(* part of updateAnimation.                                                *)
(***************************************************************************)
\* the record built by the engine's constructor at wall-clock time t
NewPlaybackState(t) ==
  [isPlaying |-> TRUE, isReversed |-> FALSE, currentTime |-> 0, startTime |-> t,
   rotationAngle |-> 0, yRotateAngle |-> 0, pulseScale |-> 0]

\* animationDuration * 2, in time ticks
CycleLength(s) == s.animationDuration * 2 * Ms

\* the cycle time without the reversal
CycleTimeForwardOnly(currentTime, s, isReversed) == currentTime % CycleLength(s)

\* let cycleTime = currentTime % (animationDuration * 2);
\* if (isReversed) cycleTime = animationDuration * 2 - cycleTime
CycleTime(currentTime, s, isReversed) ==
  LET c == currentTime % CycleLength(s)
  IN  IF isReversed THEN CycleLength(s) - c ELSE c

\* x^3 for x in thousandths
Cube(x) == (((x * x) \div 1000) * x) \div 1000

\* an envelope whose shrink phase starts below the hold value
EnvelopeDropsAfterHold(c, s) ==
  LET d == s.animationDuration * Ms
  IN  IF c < d
      THEN IF 10 * c < 8 * d
           THEN 1000 - (800 * Cube(((8 * d - 10 * c) * 1000) \div (8 * d))) \div 1000
           ELSE 1000
      ELSE IF 10 * (c - d) < 2 * d
           THEN 1000
           ELSE 100 + (800 * Cube((10 * (2 * d - c) * 1000) \div (8 * d))) \div 1000

\* the build-debuild envelope, in thousandths, at cycle time c
Envelope(c, s) ==
  LET d == s.animationDuration * Ms
  IN  IF c < d
      THEN IF 10 * c < 8 * d
           THEN 1000 - (800 * Cube(((8 * d - 10 * c) * 1000) \div (8 * d))) \div 1000
           ELSE 1000
      ELSE IF 10 * (c - d) < 2 * d
           THEN 1000
           ELSE 200 + (800 * Cube((10 * (2 * d - c) * 1000) \div (8 * d))) \div 1000

\* lines 252-292 of updateAnimation: the block guarded by isPlaying, run at
\* wall-clock time t
AdvancePlayback(ps, s, t) ==
  IF ~ps.isPlaying THEN ps
  ELSE LET ct == t - ps.startTime
       IN  [ps EXCEPT
              !.currentTime   = ct,
              !.rotationAngle = IF s.enableRotation
                                THEN @ + (s.rotationSpeed * 20) \div 1000 ELSE @,
              !.yRotateAngle  = IF s.enableYAxisRotate
                                THEN @ + (s.yRotateSpeed * 20) \div 1000 ELSE @,
              !.pulseScale    = IF s.enableBuildDebuild
                                THEN Envelope(CycleTime(ct, s, ps.isReversed), s)
                                ELSE 1000]

(***************************************************************************)
(* Fixed-point trigonometry: angles in milliradians, values in thousandths *)
(* (Bhaskara's rational approximation of the sine, exact at 0, pi/2, pi).  *)
(***************************************************************************)
Pi == 3142
TwoPi == 6283

SinHalf(x) ==
  LET p == (x * (Pi - x)) \div 100
  IN  (16000 * p) \div (493480 - 4 * p)

Sin(a) ==
  LET x == a % TwoPi
  IN  IF x <= Pi THEN SinHalf(x) ELSE -SinHalf(Min(x - Pi, Pi))

Cos(a) == Sin(a + 1571)

\* integer square root
RECURSIVE SqrtFrom(_, _)
SqrtFrom(n, r) == IF (r + 1) * (r + 1) > n THEN r ELSE SqrtFrom(n, r + 1)

RECURSIVE Sqrt(_)
Sqrt(n) == IF n < 4 THEN SqrtFrom(n, 0)
           ELSE LET h == 2 * Sqrt(n \div 4) IN SqrtFrom(n, h)

\* the values start, start + step, ... that satisfy the loop condition
\* (strictly below limit, or up to and including it)
RECURSIVE Steps(_, _, _, _)
Steps(start, step, limit, inclusive) ==
  IF start < limit \/ (inclusive /\ start = limit)
  THEN <<start>> \o Steps(start + step, step, limit, inclusive)
  ELSE <<>>

RECURSIVE Flatten(_)
Flatten(ss) == IF Len(ss) = 0 THEN <<>> ELSE Head(ss) \o Flatten(Tail(ss))

\* a point at polar position (radius r in hundredths, angle a), height z
Polar(r, a, z, b, src) ==
  [x |-> TDiv(Cos(a) * r, 1000), y |-> TDiv(Sin(a) * r, 1000), z |-> z,
   brightness |-> b, source |-> src]

(***************************************************************************)
(* The base shape (createPulsingShape): 16 spokes and 5 rings.             *)
(***************************************************************************)
ShapePoint(r, a) ==
  [x |-> TDiv(Cos(a) * r, 1000), y |-> TDiv(Sin(a) * r, 1000), z |-> 0,
   originalRadius |-> r, angle |-> a]

createSpokes(s) ==
  LET radii == Steps(s.innerRadius * 100, 300, s.outerRadius * 100, FALSE)
  IN  Flatten([i \in 1..16 |->
        [k \in 1..Len(radii) |-> ShapePoint(radii[k], (TwoPi * (i - 1)) \div 16)]])

createRings(s) ==
  LET angles == Steps(0, 300, TwoPi, FALSE)
  IN  Flatten([i \in 1..5 |->
        [k \in 1..Len(angles) |->
           ShapePoint(s.innerRadius * 100
                        + (((s.outerRadius - s.innerRadius) * 100) * (i - 1)) \div 5,
                      angles[k])]])

createPulsingShape(s) == createSpokes(s) \o createRings(s)

(***************************************************************************)
(* Pattern generators.  ps is the playback state, s the settings, sh    *)
(* the base shape, t the wall clock.  currentTime * k (k per millisecond)  *)
(* becomes (currentTime * 1000 k) / Ms in milliradians or thousandths.     *)
(***************************************************************************)
\* currentTime (ticks) * perMs (thousandths per ms) * speed (thousandths)
Scaled(ticks, perMs, speed) == (ticks * perMs * speed) \div (Ms * 1000)

Radii(s, step) == Steps(s.innerRadius * 100, step, s.outerRadius * 100, TRUE)

Span(s) == (s.outerRadius - s.innerRadius) * 100

collectBuildDebildPoints(ps, s, sh) ==
  [i \in 1..Len(sh) |->
     LET pt     == sh[i]
         radius == Sqrt(pt.x * pt.x + pt.y * pt.y)
         off    == TDiv(Sin(ps.currentTime + pt.angle * 3) * s.morphIntensity, 1000)
         \* cos(atan2(y, x)) * newRadius = x / radius * newRadius
         mx     == IF s.enableMorphing /\ radius > 0
                   THEN TDiv(pt.x * (radius + off), radius) ELSE pt.x
         my     == IF s.enableMorphing /\ radius > 0
                   THEN TDiv(pt.y * (radius + off), radius) ELSE pt.y
     IN  [x |-> TDiv(mx * ps.pulseScale, 1000), y |-> TDiv(my * ps.pulseScale, 1000),
          z |-> TDiv(pt.z * ps.pulseScale, 1000),
          brightness |-> 255000, source |-> "buildDebuild"]]

collectSpiralPoints(ps, s) ==
  LET spiralTime == Scaled(ps.currentTime, 5, s.patternSpeed)
      radii      == Steps(s.innerRadius * 100, 500, s.outerRadius * 100, TRUE)
  IN  [k \in 1..Len(radii) |->
         Polar(radii[k], spiralTime + radii[k], 0, 200000, "spiral")]

collectWavePoints(ps, s) ==
  LET waveTime == Scaled(ps.currentTime, 10, s.patternSpeed)
      radii    == Radii(s, 500)
      angles   == Steps(0, 300, TwoPi, FALSE)
      wave(r)  == TDiv(Sin(waveTime + r), 2) + 500
  IN  Flatten([k \in 1..Len(radii) |->
        IF wave(radii[k]) > 300
        THEN [j \in 1..Len(angles) |->
                Polar(radii[k], angles[j], 0, wave(radii[k]) * 153, "wave")]
        ELSE <<>>])

collectRipplePoints(ps, s) ==
  LET rippleTime == Scaled(ps.currentTime, 8, s.patternSpeed)
      angles     == Steps(0, 200, TwoPi, FALSE)
      radius(i)  == ((TDiv(Sin(rippleTime + (TwoPi * i) \div 3), 2) + 500) * Span(s)) \div 1000
                      + s.innerRadius * 100
  IN  Flatten([i \in 1..3 |->
        [j \in 1..Len(angles) |-> Polar(radius(i - 1), angles[j], 0, 200000, "ripple")]])

\* reads the wall clock t (Date.now()), not currentTime
collectPulsePoints(t, s) ==
  LET pulseTime   == (t * s.patternSpeed) \div (Ms * 2000)
      angles      == Steps(0, 120, TwoPi, FALSE)
      progress(i) == (pulseTime + 200 * i) % 1000
      bright(i)   == ((1000 - progress(i)) * (1000 - progress(i)) * 255) \div 1000
  IN  Flatten([i \in 1..5 |->
        IF bright(i - 1) > 10000
        THEN [j \in 1..Len(angles) |->
                Polar(s.innerRadius * 100 + (progress(i - 1) * Span(s)) \div 1000,
                      angles[j],
                      TDiv(Sin((progress(i - 1) * Pi) \div 1000) * 500, 1000),
                      bright(i - 1), "pulse")]
        ELSE <<>>])

collectScannerPoints(ps, s) ==
  LET scanTime  == Scaled(ps.currentTime, 3, s.patternSpeed)
      scanAngle == ((TDiv(Sin(scanTime), 2) + 500) * TwoPi) \div 1000
      main      == Radii(s, 300)
      trail     == Radii(s, 400)
  IN  [k \in 1..Len(main) |-> Polar(main[k], scanAngle, 0, 255000, "scanner")]
      \o Flatten([i \in 1..2 |->
           [k \in 1..Len(trail) |->
              Polar(trail[k], scanAngle - i * 150, 0, 255000 - i * 90000, "scanner")]])

\* |(sin(seed) * 10000) % 1|: the digits below the fixed-point resolution
\* are taken from a multiplicative hash of the sine
Hash(seed) == (Abs(Sin(seed)) * 7919) % 1000

collectSparklePoints(ps, s) ==
  LET sparkleTime == Scaled(ps.currentTime, 10, s.patternSpeed)
      seed(i)     == (i * 123456 + (sparkleTime \div 300000) * 789012) % TwoPi
      r1(i)       == Hash(seed(i))
      r2(i)       == Hash((seed(i) * 1234) \div 1000 + 1571)
      r3(i)       == Hash((seed(i) * 2345) \div 1000)
      angle(i)    == (r1(i) * TwoPi) \div 1000 + TDiv(sparkleTime * (r3(i) - 500) * 3, 10000)
      radius(i)   == s.innerRadius * 100 + (r2(i) * Span(s)) \div 1000
                       + TDiv(Sin((sparkleTime * 8) \div 10 + i * 300) * 800, 1000)
      flicker(i)  == Cube(Abs(Sin(TDiv(sparkleTime * (3000 + r3(i) * 5), 1000) + i * 800)))
      starSeed(i) == (i * 456789 + (sparkleTime \div 800000) * 234567) % TwoPi
      starPhase   == (sparkleTime \div 800) % 1000
      progress(k) == starPhase + k * 120
      trail(i, k) == ((1000 - progress(k)) * (255 - k * 50))
  IN  Flatten([n \in 1..50 |->
        IF flicker(n - 1) * 255 > 20000
        THEN <<Polar(radius(n - 1), angle(n - 1),
                     TDiv(Sin(sparkleTime \div 2 + (n - 1) * 1000) * 800, 1000),
                     flicker(n - 1) * 255, "sparkle")>>
        ELSE <<>>])
      \o Flatten([n \in 1..3 |->
           IF Hash(starSeed(n - 1)) > 700
           THEN Flatten([k \in 1..5 |->
                  IF progress(k - 1) < 1000 /\ trail(n - 1, k - 1) > 0
                  THEN <<Polar(s.innerRadius * 100 + (progress(k - 1) * Span(s)) \div 1000,
                               (Hash(starSeed(n - 1)) * TwoPi) \div 1000, 0,
                               trail(n - 1, k - 1), "sparkle")>>
                  ELSE <<>>])
           ELSE <<>>])

\* 200 * (1 - i / 6) ^ 2.5 for i = 1..5, in thousandths
RadarFade == <<126780, 72578, 35355, 12830, 2268>>

collectRadarPoints(ps, s) ==
  LET radarTime  == Scaled(ps.currentTime, 2, s.patternSpeed)
      radarAngle == ((radarTime % 1000) * TwoPi) \div 1000
      arm        == Radii(s, 300)
      trail      == Radii(s, 600)
      age(i)     == (radarTime * 2 + i * 330) % 1000
      bright(i)  == ((1000 - age(i)) * (1000 - age(i)) * 200) \div 1000
  IN  [k \in 1..Len(arm) |-> Polar(arm[k], radarAngle, 0, 255000, "radar")]
      \o Flatten([i \in 1..3 |->
           IF bright(i - 1) > 10000
           THEN [j \in 1..40 |->
                   Polar(s.innerRadius * 100 + (age(i - 1) * Span(s)) \div 1000,
                         ((j - 1) * TwoPi) \div 40, 0, bright(i - 1), "radar")]
           ELSE <<>>])
      \o Flatten([i \in 1..5 |->
           IF RadarFade[i] > 15000
           THEN [k \in 1..Len(trail) |->
                   Polar(trail[k], radarAngle - i * 150, 0, RadarFade[i], "radar")]
           ELSE <<>>])

collectStaticPoints(sh) ==
  [i \in 1..Len(sh) |->
     [x |-> sh[i].x, y |-> sh[i].y, z |-> sh[i].z,
      brightness |-> 150000, source |-> "static"]]

updateAnimatedPoints(ps, s, sh, t) ==
  (IF s.enableBuildDebuild THEN collectBuildDebildPoints(ps, s, sh) ELSE <<>>)
  \o (IF s.enableSpiral THEN collectSpiralPoints(ps, s) ELSE <<>>)
  \o (IF s.enableWave THEN collectWavePoints(ps, s) ELSE <<>>)
  \o (IF s.enableRipple THEN collectRipplePoints(ps, s) ELSE <<>>)
  \o (IF s.enablePulse THEN collectPulsePoints(t, s) ELSE <<>>)
  \o (IF s.enableScanner THEN collectScannerPoints(ps, s) ELSE <<>>)
  \o (IF s.enableSparkle THEN collectSparklePoints(ps, s) ELSE <<>>)
  \o (IF s.enableRadar THEN collectRadarPoints(ps, s) ELSE <<>>)
  \o (IF ~s.enableBuildDebuild /\ ~s.enableSpiral /\ ~s.enableWave /\ ~s.enableRipple
         /\ ~s.enablePulse /\ ~s.enableScanner /\ ~s.enableSparkle /\ ~s.enableRadar
      THEN collectStaticPoints(sh) ELSE <<>>)

(***************************************************************************)
(* The element grid.  An element is [originalX, originalY, brightness,     *)
(* targetBrightness, currentColor]; the grid maps <<row, col>> to it.      *)
(* Colours are <<r, g, b>> triples of 0..255.                              *)
(***************************************************************************)
Cells(s) == (0..(s.gridSize - 1)) \X (0..(s.gridSize - 1))

createLEDGrid(s) ==
  LET start == -((s.gridSize * s.ledSpacing * 100) \div 2)
  IN  [c \in Cells(s) |->
         [originalX |-> start + c[2] * s.ledSpacing * 100,
          originalY |-> start + c[1] * s.ledSpacing * 100,
          brightness |-> 0, targetBrightness |-> 0, currentColor |-> s.ledColor]]

Clamp(x, lo, hi) == Max(lo, Min(hi, x))

mapRange(value, inMin, inMax, outMin, outMax) ==
  TDiv((value - inMin) * (outMax - outMin), inMax - inMin) + outMin

\* channel-wise linear interpolation, factor in thousandths, rounded to a
\* hex colour
lerpColor(c1, c2, factor) ==
  [k \in 1..3 |-> c1[k] + TDiv((c2[k] - c1[k]) * factor + 500 * (IF c2[k] >= c1[k] THEN 1 ELSE -1), 1000)]

\* lines 741-784 of updateLEDStates: the rotations, the projection and the
\* depth attenuation of one point; drawn is FALSE for a culled point
Transform(pt, ps, s) ==
  LET x1 == IF s.enableRotation
            THEN TDiv(pt.x * Cos(ps.rotationAngle) - pt.y * Sin(ps.rotationAngle), 1000)
            ELSE pt.x
      y1 == IF s.enableRotation
            THEN TDiv(pt.x * Sin(ps.rotationAngle) + pt.y * Cos(ps.rotationAngle), 1000)
            ELSE pt.y
      x2 == IF s.enableYAxisRotate
            THEN TDiv(x1 * Cos(ps.yRotateAngle) - pt.z * Sin(ps.yRotateAngle), 1000)
            ELSE x1
      z2 == IF s.enableYAxisRotate
            THEN TDiv(x1 * Sin(ps.yRotateAngle) + pt.z * Cos(ps.yRotateAngle), 1000)
            ELSE pt.z
      x3 == IF s.enableYAxisRotate THEN TDiv(x2 * 40000, 40000 + z2) ELSE x2
      y3 == IF s.enableYAxisRotate THEN TDiv(y1 * 40000, 40000 + z2) ELSE y1
      depth == Clamp(TDiv(pt.brightness * mapRange(z2, -10000, 10000, 1200, 300), 1000),
                     0, 255000)
  IN  [x |-> x3, y |-> y3,
       brightness |-> IF s.enableYAxisRotate THEN depth ELSE pt.brightness,
       drawn |-> ~s.enableYAxisRotate \/ z2 < 5000]

\* the colour activateLEDsNearPoint gives the element at <<row, col>>
CycleColor(cell, ps, s) ==
  LET colorTime  == (ps.currentTime * s.colorSpeed) \div 1000
      colorPhase == (colorTime + cell[1] * 100 + cell[2] * 100) % 3000
  IN  IF colorPhase < 1000 THEN lerpColor(s.ledColor, s.ledColor2, colorPhase)
      ELSE IF colorPhase < 2000 THEN lerpColor(s.ledColor2, s.ledColor3, colorPhase - 1000)
      ELSE lerpColor(s.ledColor3, s.ledColor, colorPhase - 2000)

\* a mapping that recolours the element it raises whether or not the colour
\* transition is enabled
activateAlwaysTints(led, cell, pt, ps, s) ==
  LET dx == pt.x - led.originalX
      dy == pt.y - led.originalY
  IN  IF /\ pt.drawn
         /\ dx * dx + dy * dy < (s.ledSpacing * 70) * (s.ledSpacing * 70)
         /\ pt.brightness > led.targetBrightness
      THEN [led EXCEPT !.targetBrightness = pt.brightness,
                       !.currentColor = CycleColor(cell, ps, s)]
      ELSE led

\* a mapping in which the last point in range wins
activateLastInRange(led, cell, pt, ps, s) ==
  LET dx == pt.x - led.originalX
      dy == pt.y - led.originalY
  IN  IF /\ pt.drawn
         /\ dx * dx + dy * dy < (s.ledSpacing * 70) * (s.ledSpacing * 70)
      THEN [led EXCEPT !.targetBrightness = pt.brightness]
      ELSE led

\* activateLEDsNearPoint for one element and one point: the element is
\* raised by a point in range that is brighter
activateLEDsNearPoint(led, cell, pt, ps, s) ==
  LET dx == pt.x - led.originalX
      dy == pt.y - led.originalY
  IN  IF /\ pt.drawn
         /\ dx * dx + dy * dy < (s.ledSpacing * 70) * (s.ledSpacing * 70)
         /\ pt.brightness > led.targetBrightness
      THEN [led EXCEPT !.targetBrightness = pt.brightness,
                       !.currentColor = IF s.enableColorTransition
                                        THEN CycleColor(cell, ps, s) ELSE @]
      ELSE led

\* the points lo..hi applied to one element in the order of the loop
RECURSIVE ActivateRange(_, _, _, _, _, _, _)
ActivateRange(led, cell, pts, lo, hi, ps, s) ==
  IF lo > hi THEN led
  ELSE IF lo = hi THEN activateLEDsNearPoint(led, cell, pts[lo], ps, s)
  ELSE LET mid   == (lo + hi) \div 2
           first == ActivateRange(led, cell, pts, lo, mid, ps, s)
       IN  IF first.targetBrightness >= 0
           THEN ActivateRange(first, cell, pts, mid + 1, hi, ps, s)
           ELSE first

(***************************************************************************)
(* Media.  A loaded image or video is [url, type]; the pictures are black  *)
(* and white, so that the error a diffusion dither carries from a pixel to *)
(* its neighbours is 0 and every pixel is quantised on its own.            *)
(*   mediaElement     the element installed by the last completed load     *)
(*   ditheredGrid     the brightness grid of processMediaFrame, empty      *)
(*                    before the first one                                 *)
(*   mediaFrameCount  the number of processMediaFrame runs since clearMedia*)
(*   loads            the loadMedia promises still pending                 *)
(*   rejected         the number of loadMedia promises rejected so far     *)
(*   idleFrames       frames computed with a video in media mode since the *)
(*                    grid was last processed                              *)
(***************************************************************************)
NoElement == [url |-> "null", type |-> "null"]

NoMedia ==
  [mediaElement |-> NoElement, ditheredGrid |-> [c \in {} |-> 0], mediaFrameCount |-> 0,
   loads |-> <<>>, rejected |-> 0, idleFrames |-> 0]

\* the grey value of the picture an element shows at wall-clock time t, at
\* the relative position (x, y) in thousandths of its width and height: an
\* image is white on its left half, a video is a checkerboard that moves
\* with every frame
PixelGray(el, t, x, y) ==
  IF el.type = "video"
  THEN IF ((x * 2) \div 1000 + (y * 2) \div 1000 + t \div FrameInterval) % 2 = 0
       THEN 255 ELSE 0
  ELSE IF x < 500 THEN 255 ELSE 0

\* brightness and contrast of imageToLEDGrid (thousandths), clamped to a byte
AdjustGray(gray, s) ==
  Clamp(TDiv((TDiv(gray * s.mediaBrightness, 1000) - 128) * s.mediaContrast, 1000) + 128,
        0, 255)

\* applyDither on one pixel whose neighbours carry no error
applyDither(gray, s) ==
  IF s.ditherPreset = "none"
  THEN (IF gray >= s.ditherThreshold THEN 255 ELSE 0)
  ELSE (IF gray < 128 THEN 0 ELSE 255)

\* getImageData scales the element to gridSize * 10 pixels each way and
\* imageToLEDGrid samples the dithered pixel at the centre of every cell
imageToLEDGrid(el, t, s) ==
  [c \in Cells(s) |->
     applyDither(AdjustGray(PixelGray(el, t, ((c[2] * 10 + 5) * 1000) \div (s.gridSize * 10),
                                      ((c[1] * 10 + 5) * 1000) \div (s.gridSize * 10)), s),
                 s) * 1000]

processMediaFrame(m, s, t) ==
  IF m.mediaElement = NoElement THEN m
  ELSE [m EXCEPT !.ditheredGrid = imageToLEDGrid(m.mediaElement, t, s),
                 !.mediaFrameCount = @ + 1, !.idleFrames = 0]

clearMedia(m) ==
  [m EXCEPT !.mediaElement = NoElement, !.ditheredGrid = [c \in {} |-> 0],
            !.mediaFrameCount = 0, !.idleFrames = 0]

\* loadMedia up to the return of its promise: the element it creates is
\* installed by the load event
loadMedia(m, url, mediaType) ==
  [m EXCEPT !.loads = Append(@, [url |-> url,
                                 type |-> IF mediaType = "video" THEN "video" ELSE "image"])]

\* lines 722-725 of updateLEDStates
processVideoFrame(m, s, t) ==
  IF s.enableMediaMode /\ m.mediaElement.type = "video"
  THEN IF m.mediaFrameCount % 2 = 0 THEN processMediaFrame(m, s, t)
       ELSE [m EXCEPT !.idleFrames = @ + 1]
  ELSE m

\* lines 727-737 of updateLEDStates: the media grid alone
showMedia(grid, s, m) ==
  [c \in DOMAIN grid |->
     [grid[c] EXCEPT !.targetBrightness = IF c \in DOMAIN m.ditheredGrid
                                          THEN m.ditheredGrid[c] ELSE 0,
                     !.currentColor = s.ledColor]]

\* lines 741-784 of updateLEDStates: the pattern points mapped to the grid
mapPoints(grid, pts, ps, s) ==
  [c \in DOMAIN grid |->
     ActivateRange(
       [grid[c] EXCEPT !.targetBrightness = 0, !.currentColor = s.ledColor],
       c, pts, 1, Len(pts), ps, s)]

\* a blend that multiplies the two layers
BlendMultiply(mediaBrightness, ledBrightness) ==
  ((mediaBrightness \div 1000) * ledBrightness) \div 255

\* Math.max(mediaBrightness, ledBrightness)
Blend(mediaBrightness, ledBrightness) == Max(mediaBrightness, ledBrightness)

\* lines 786-800 of updateLEDStates: the combined mode
blendMedia(mapped, s, m) ==
  IF s.displayMode = "combined" /\ DOMAIN m.ditheredGrid # {}
  THEN [c \in DOMAIN mapped |->
          IF c \in DOMAIN m.ditheredGrid
          THEN [mapped[c] EXCEPT !.targetBrightness = Blend(m.ditheredGrid[c], @)]
          ELSE mapped[c]]
  ELSE mapped

\* updateLEDStates after its video refresh, with the media state m
updateLEDStates(grid, points, ps, s, m) ==
  IF s.displayMode = "media" /\ DOMAIN m.ditheredGrid # {}
  THEN showMedia(grid, s, m)
  ELSE blendMedia(mapPoints(grid, [i \in 1..Len(points) |-> Transform(points[i], ps, s)],
                            ps, s),
                  s, m)

\* a spiral distortion that does not clamp its result
applySpiralDistortionUnclamped(grid, ps, s) ==
  [c \in DOMAIN grid |->
     LET led  == grid[c]
         dist == Sqrt(led.originalX * led.originalX + led.originalY * led.originalY)
         spiralWave == Sin(ps.currentTime * 3 + dist)
         brightnessModifier == 500 + TDiv(spiralWave * s.spiralIntensity, 2000)
     IN  IF led.targetBrightness > 30000
         THEN [led EXCEPT !.targetBrightness = TDiv(@ * brightnessModifier, 1000)]
         ELSE led]

applySpiralDistortion(grid, ps, s) ==
  [c \in DOMAIN grid |->
     LET led  == grid[c]
         dist == Sqrt(led.originalX * led.originalX + led.originalY * led.originalY)
         spiralWave == Sin(ps.currentTime * 3 + dist)
         brightnessModifier == 500 + TDiv(spiralWave * s.spiralIntensity, 2000)
     IN  IF led.targetBrightness > 30000
         THEN [led EXCEPT !.targetBrightness =
                 Clamp(TDiv(@ * brightnessModifier, 1000), 0, 255000)]
         ELSE led]

applyFlickerEffect(grid, ps, s) ==
  [c \in DOMAIN grid |->
     LET led == grid[c]
         t50 == (ps.currentTime * 50) \div Ms
         t100 == (ps.currentTime * 100) \div Ms
         f1  == TDiv(Sin(t50 + c[1] * 13700 + c[2] * 7300), 2) + 500
         f2  == TDiv(Sin(t100 + c[1] * 5100 + c[2] * 11900) * 3, 10)
         flickerValue == Clamp(f1 + f2, 0, 1000)
         flickerMultiplier == 1000 - TDiv(s.flickerAmount * (1000 - flickerValue), 1000)
     IN  IF led.targetBrightness > 30000
         THEN [led EXCEPT !.targetBrightness =
                 Clamp(TDiv(@ * flickerMultiplier, 1000), 0, 255000)]
         ELSE led]

applyModifiers(grid, ps, s) ==
  LET g1 == IF s.enableSpiralModifier THEN applySpiralDistortion(grid, ps, s) ELSE grid
  IN  IF s.enableFlicker THEN applyFlickerEffect(g1, ps, s) ELSE g1

\* updateAnimation at wall-clock time t: the new playback state, points,
\* media state and grid
updateAnimation(ps, grid, s, sh, m, t) ==
  LET ps2 == AdvancePlayback(ps, s, t)
      pts == updateAnimatedPoints(ps2, s, sh, t)
      m2  == processVideoFrame(m, s, t)
  IN  [ps |-> ps2, points |-> pts, media |-> m2,
       cycleTime |-> IF ps.isPlaying
                     THEN <<CycleTime(ps2.currentTime, s, ps.isReversed)>> ELSE <<>>,
       grid |-> applyModifiers(updateLEDStates(grid, pts, ps2, s, m2), ps2, s)]

\* the value of the local cycleTime once a frame computation has run
Computed(c, old) == IF c = <<>> THEN old ELSE c[1]

\* an easing step that never snaps to the target
renderNeverSnaps(grid) ==
  [c \in DOMAIN grid |->
     [grid[c] EXCEPT !.brightness =
        @ + TDiv((grid[c].targetBrightness - grid[c].brightness) * 627, 8000)]]

\* an easing step whose factor 1.15 carries the brightness past the target
renderOvershoots(grid) ==
  [c \in DOMAIN grid |->
     LET diff == grid[c].targetBrightness - grid[c].brightness
     IN  [grid[c] EXCEPT !.brightness =
            IF Abs(diff) > 100 THEN @ + TDiv(diff * 115, 100)
            ELSE grid[c].targetBrightness]]

\* the easing step of render(): 0.15^3 + 0.15 * 0.5 = 627 / 8000
render(grid) ==
  [c \in DOMAIN grid |->
     LET diff == grid[c].targetBrightness - grid[c].brightness
     IN  [grid[c] EXCEPT !.brightness =
            IF Abs(diff) > 100 THEN @ + TDiv(diff * 627, 8000)
            ELSE grid[c].targetBrightness]]

(***************************************************************************)
(* Settings explored.  The grid is 2 x 2 and the radii are small so that   *)
(* the shape covers the grid; the duration is 25 ms so that a whole cycle  *)
(* fits the explored time.                                                 *)
(***************************************************************************)
BaseSettings ==
  [gridSize |-> 2, ledSpacing |-> 12, innerRadius |-> 6, outerRadius |-> 12,
   animationDuration |-> 25,
   enableBuildDebuild |-> TRUE, enableSpiral |-> FALSE, enableWave |-> FALSE,
   enableRipple |-> FALSE, enablePulse |-> FALSE, enableScanner |-> FALSE,
   enableSparkle |-> FALSE, enableRadar |-> FALSE, patternSpeed |-> 1000,
   enableRotation |-> FALSE, rotationSpeed |-> 1000,
   enableMorphing |-> FALSE, morphIntensity |-> 500,
   enableColorTransition |-> FALSE, colorSpeed |-> 1000,
   ledColor |-> <<255, 255, 255>>, ledColor2 |-> <<123, 179, 255>>,
   ledColor3 |-> <<144, 255, 123>>,
   enableSpiralModifier |-> FALSE, enableYAxisRotate |-> FALSE, enableFlicker |-> FALSE,
   spiralIntensity |-> 500, yRotateSpeed |-> 1000, flickerAmount |-> 200,
   showBackground |-> TRUE, displayMode |-> "led", enableMediaMode |-> FALSE,
   mediaUrl |-> "null", mediaType |-> "null", ditherPreset |-> "floyd-steinberg",
   ditherThreshold |-> 128, mediaContrast |-> 1000, mediaBrightness |-> 1000]

PulseSettings ==
  [BaseSettings EXCEPT !.enableBuildDebuild = FALSE, !.enablePulse = TRUE,
                       !.patternSpeed = 5000]

RotatingSettings ==
  [BaseSettings EXCEPT !.enableRotation = TRUE, !.rotationSpeed = 5000,
                       !.enableColorTransition = TRUE, !.colorSpeed = 5000]

InitSettings == {PulseSettings, RotatingSettings}

\* defaultExportSettings of the store
DefaultExportSettings == [fps |-> 60, cycles |-> 1]

(***************************************************************************)
(* State.                                                                  *)
(*   now            Date.now() and performance.now()                       *)
(*   lastFrameTime  the engine's throttle anchor                           *)
(*   settings, shape, playbackState, ledGrid, animatedPoints   fields of the *)
(*                  engine                                                 *)
(*   media          the engine's media fields and its pending loads        *)
(*   storeSettings  settings of the zustand store                          *)
(*   store          playbackState of the zustand store                     *)
(*   exportSettings fps and cycles of the store's export dialog            *)
(*   exp            the export loop in progress, with the values it saved  *)
(*   frames         the frames captured by the export loops so far         *)
(*   inputs         the number of playback controls used so far            *)
(*   cycleTime      the local cycleTime of updateAnimation, as last computed*)
(*   animationId    "requested" while a requestAnimationFrame callback of  *)
(*                  animate is pending, "cancelled" after dispose()        *)
(*   disposals      the number of dispose() calls so far                   *)
(*   overlap        a second exportSequence loop started while exp waits   *)
(*   resetAt        Date.now() of the last engine.reset(), -1 before it    *)
(*   undoStack, redoStack, maxStackSize   fields of the UndoRedoManager     *)
(***************************************************************************)
NoExport ==
  [kind |-> "none", pc |-> "idle", run |-> 0, i |-> 0, totalFrames |-> 0, fps |-> 0,
   originalPlaying |-> FALSE, originalTime |-> 0, originalStartTime |-> 0,
   pre |-> <<>>, post |-> <<>>, touched |-> FALSE, thrownBy |-> "none"]

\* the state once AnimationCanvas is mounted: the constructor has run (its
\* first animate() call sets lastFrameTime), updateSettings(settings) has
\* rebuilt the grid and the playback effect has copied the store's default
\* playback state (startTime: Date.now() at module load) into the engine
Init ==
  /\ now = 60
  /\ lastFrameTime = 60 - (60 % FrameInterval)
  /\ settings \in InitSettings
  /\ storeSettings = settings
  /\ media = NoMedia
  /\ animatedPoints = <<>>
  /\ shape = createPulsingShape(settings)
  /\ store = NewPlaybackState(30)
  /\ playbackState = store
  /\ exportSettings = DefaultExportSettings
  /\ ledGrid = createLEDGrid(settings)
  /\ exp = NoExport
  /\ frames = <<>>
  /\ inputs = 0
  /\ cycleTime = 0
  /\ animationId = "requested"
  /\ disposals = 0
  /\ overlap = NoExport
  /\ resetAt = -1
  /\ undoStack = <<>>
  /\ redoStack = <<>>
  /\ maxStackSize = 100

\* time passes
AdvanceTime ==
  /\ now + TimeStep <= MaxNow
  /\ now' = now + TimeStep
  /\ UNCHANGED <<lifecycle, overlap, resetAt, history, lastFrameTime, settings, storeSettings, shape, playbackState, store, exportSettings,
                 ledGrid, exp, frames, inputs, cycleTime,
                 media, animatedPoints>>

\* time passes until the next frame of the animation loop is due
AdvanceFrame ==
  /\ lastFrameTime + FrameInterval > now
  /\ lastFrameTime + FrameInterval <= EasingHorizon
  /\ now' = lastFrameTime + FrameInterval
  /\ UNCHANGED <<lastFrameTime, settings, storeSettings, shape, playbackState, store,
                 exportSettings, ledGrid, exp, frames, inputs, cycleTime, media,
                 animatedPoints, lifecycle, overlap, resetAt, history>>

\* the requestAnimationFrame callback, when the throttle lets the frame run
animate ==
  LET delta == now - lastFrameTime
      u     == updateAnimation(playbackState, ledGrid, settings, shape, media, now)
  IN  /\ animationId = "requested"
      /\ delta >= FrameInterval
      /\ lastFrameTime' = now - (delta % FrameInterval)
      /\ playbackState' = u.ps
      /\ ledGrid' = render(u.grid)
      /\ cycleTime' = Computed(u.cycleTime, cycleTime)
      /\ media' = u.media
      /\ animatedPoints' = u.points
      /\ UNCHANGED <<lifecycle, overlap, resetAt, history, now, settings, storeSettings, shape, store, exportSettings, exp, frames,
                     inputs>>

(***************************************************************************)
(* Engine control methods and the store's playback controls.               *)
(***************************************************************************)
\* engine.dispose(), called by the cleanup of AnimationCanvas: the pending
\* animation frame is cancelled and the renderer disposed of; the export
\* loops are not told
dispose ==
  /\ disposals < MaxDisposals
  /\ animationId' = "cancelled"
  /\ disposals' = disposals + 1
  /\ UNCHANGED <<now, lastFrameTime, settings, storeSettings, shape, playbackState, store,
                 exportSettings, ledGrid, exp, frames, inputs, cycleTime, media,
                 animatedPoints, overlap, resetAt, history>>

play(ps) == [ps EXCEPT !.isPlaying = TRUE, !.isReversed = FALSE]

pause(ps) == [ps EXCEPT !.isPlaying = FALSE]

\* a reset that leaves pulseScale as it is
resetKeepsPulse(ps, t) ==
  [ps EXCEPT !.startTime = t, !.isReversed = FALSE,
             !.rotationAngle = 0, !.yRotateAngle = 0]

reset(ps, t) ==
  [ps EXCEPT !.startTime = t, !.pulseScale = 200, !.isReversed = FALSE,
             !.rotationAngle = 0, !.yRotateAngle = 0]

reverse(ps) == [ps EXCEPT !.isPlaying = TRUE, !.isReversed = TRUE]

\* { ...a, ...updates }
Merge(a, updates) ==
  [k \in DOMAIN a |-> IF k \in DOMAIN updates THEN updates[k] ELSE a[k]]

\* AnimationCanvas, "Sync playback state" effect, run with the store's new
\* playback state st
SyncPlaybackState(ps, st) ==
  LET called == IF st.isPlaying # ps.isPlaying
                THEN IF st.isPlaying
                     THEN IF st.isReversed THEN reverse(ps) ELSE play(ps)
                     ELSE pause(ps)
                ELSE ps
  IN  Merge(called, st)

\* a control acts on the engine while an export loop is suspended
Touch(e) == [e EXCEPT !.touched = @ \/ e.pc = "await"]

\* store.setPlaybackState(updates) followed by the effect it triggers
setPlaybackState(updates) ==
  /\ inputs < MaxInputs
  /\ inputs' = inputs + 1
  /\ store' = Merge(store, updates)
  /\ playbackState' = SyncPlaybackState(playbackState, store')
  /\ exp' = Touch(exp)
  /\ UNCHANGED <<lifecycle, overlap, resetAt, history, now, lastFrameTime, settings, storeSettings, shape, exportSettings, ledGrid, frames,
                 cycleTime,
                 media, animatedPoints>>

\* R key and canvas click: engine.reset()
EngineReset ==
  /\ inputs < MaxInputs
  /\ inputs' = inputs + 1
  /\ playbackState' = reset(playbackState, now)
  /\ resetAt' = now
  /\ exp' = Touch(exp)
  /\ UNCHANGED <<lifecycle, overlap, history, now, lastFrameTime, settings, storeSettings, shape, store, exportSettings, ledGrid, frames,
                 cycleTime,
                 media, animatedPoints>>

\* PlaybackControls.handlePlay (the button is disabled while playing forward)
handlePlay ==
  /\ ~(store.isPlaying /\ ~store.isReversed)
  /\ setPlaybackState([isPlaying |-> TRUE, isReversed |-> FALSE])

\* PlaybackControls.handlePause, Transport.handlePause, the Space key while
\* playing and the inactivity detector: setPlaybackState({isPlaying: false})
handlePause ==
  /\ store.isPlaying
  /\ setPlaybackState([isPlaying |-> FALSE])

\* the Space key while paused: setPlaybackState({isPlaying: true})
KeySpacePlay ==
  /\ ~store.isPlaying
  /\ setPlaybackState([isPlaying |-> TRUE])

\* the B key: setPlaybackState({isReversed: !isReversed})
KeyReverse == setPlaybackState([isReversed |-> ~store.isReversed])

\* PlaybackControls.handleReverse (disabled while playing reversed)
handleReverse ==
  /\ ~(store.isPlaying /\ store.isReversed)
  /\ setPlaybackState([isPlaying |-> TRUE, isReversed |-> TRUE])

\* PlaybackControls.handleReset
handleReset ==
  setPlaybackState([startTime |-> now, rotationAngle |-> 0, yRotateAngle |-> 0,
                    pulseScale |-> 200, isReversed |-> FALSE])

\* Transport.handlePlay (shown while paused)
TransportPlay ==
  /\ ~store.isPlaying
  /\ setPlaybackState([isPlaying |-> TRUE, isReversed |-> FALSE, startTime |-> now])

\* Transport.handleReset
TransportReset ==
  setPlaybackState([startTime |-> now, currentTime |-> 0, isPlaying |-> FALSE,
                    rotationAngle |-> 0, yRotateAngle |-> 0, pulseScale |-> 200])

\* Transport.handleStepBack
handleStepBack ==
  setPlaybackState([currentTime |-> Max(0, store.currentTime - StepMs),
                    isPlaying |-> FALSE])

\* Transport.handleStepForward
handleStepForward ==
  /\ store.currentTime + StepMs <= MaxNow
  /\ setPlaybackState([currentTime |-> store.currentTime + StepMs, isPlaying |-> FALSE])

(***************************************************************************)
(* Settings: engine.updateSettings, the store's updateSettings with the    *)
(* effect of AnimationCanvas that passes the whole settings record to the  *)
(* engine, the panels and the toggle keys.  A partial settings record is a *)
(* function whose domain holds the keys that are not undefined; null is    *)
(* the string "null".                                                      *)
(***************************************************************************)
Has(newSettings, keys) == (DOMAIN newSettings) \cap keys # {}

\* lines 1052-1064 of updateSettings, s being the merged settings
updateMedia(m, newSettings, s) ==
  IF Has(newSettings, {"mediaUrl", "mediaType"})
  THEN IF s.mediaUrl # "null" /\ s.mediaType # "null"
       THEN loadMedia(m, s.mediaUrl, s.mediaType)
       ELSE clearMedia(m)
  ELSE m

\* lines 1066-1074 of updateSettings
reprocessDither(m, newSettings, s, t) ==
  IF /\ s.enableMediaMode
     /\ m.mediaElement # NoElement
     /\ Has(newSettings, {"ditherPreset", "ditherThreshold", "mediaContrast",
                          "mediaBrightness"})
  THEN processMediaFrame(m, s, t) ELSE m

\* the condition of "Live grid recreation", line 1077
RecreatesGrid(newSettings) == Has(newSettings, {"gridSize", "ledSpacing", "showBackground"})

\* lines 1080-1083 of updateSettings
reprocessGrid(m, newSettings, s, t) ==
  IF RecreatesGrid(newSettings) /\ s.enableMediaMode /\ m.mediaElement # NoElement
  THEN processMediaFrame(m, s, t) ELSE m

\* engine.updateSettings(newSettings)
updateSettings(newSettings) ==
  /\ settings' = Merge(settings, newSettings)
  /\ media' = reprocessGrid(
                reprocessDither(updateMedia(media, newSettings, Merge(settings, newSettings)),
                                newSettings, Merge(settings, newSettings), now),
                newSettings, Merge(settings, newSettings), now)
  /\ ledGrid' = IF RecreatesGrid(newSettings)
                THEN createLEDGrid(Merge(settings, newSettings)) ELSE ledGrid
  /\ shape' = IF Has(newSettings, {"innerRadius", "outerRadius"})
              THEN createPulsingShape(Merge(settings, newSettings)) ELSE shape

\* store.updateSettings(updates) followed by the effect it triggers:
\* engine.updateSettings(settings) with the store's whole record
storeUpdateSettings(updates) ==
  /\ inputs < MaxInputs
  /\ inputs' = inputs + 1
  /\ storeSettings' = Merge(storeSettings, updates)
  /\ updateSettings(Merge(storeSettings, updates))
  /\ exp' = Touch(exp)
  /\ UNCHANGED <<lifecycle, overlap, resetAt, history, now, lastFrameTime, playbackState, store, exportSettings, frames,
                 cycleTime, animatedPoints>>

\* the flag a toggle key flips: 1-4, C, Y and G
ToggleKeys ==
  [k1 |-> "enableBuildDebuild", k2 |-> "enableSpiral", k3 |-> "enableWave",
   k4 |-> "enableRipple", c |-> "enableColorTransition", y |-> "enableYAxisRotate",
   g |-> "showBackground"]

\* handleKeyDown for a toggle key: engine.updateSettings({flag: !settings.flag})
\* with the store's value of the flag; the store is not updated
KeyToggle ==
  \E key \in DOMAIN ToggleKeys :
    /\ inputs < MaxInputs
    /\ inputs' = inputs + 1
    /\ updateSettings([f \in {ToggleKeys[key]} |-> ~storeSettings[f]])
    /\ exp' = Touch(exp)
    /\ UNCHANGED <<lifecycle, overlap, resetAt, history, now, lastFrameTime, storeSettings, playbackState, store, exportSettings,
                   frames, cycleTime, animatedPoints>>

\* the pattern flags in the order of updateAnimatedPoints and of the
\* pattern selector
PatternFlags ==
  <<"enableBuildDebuild", "enableSpiral", "enableWave", "enableRipple", "enablePulse",
    "enableScanner", "enableSparkle", "enableRadar">>

\* the value the pattern selector of App.tsx shows: the first flag set
SelectedPattern(s) ==
  IF \E i \in 1..8 : s[PatternFlags[i]]
  THEN PatternFlags[CHOOSE i \in 1..8 :
                      s[PatternFlags[i]] /\ \A j \in 1..(i - 1) : ~s[PatternFlags[j]]]
  ELSE "none"

\* onChange of the pattern selector
PatternSelect ==
  \E pattern \in {PatternFlags[i] : i \in 1..8} \cup {"none"} :
    /\ pattern # SelectedPattern(storeSettings)
    /\ storeUpdateSettings([f \in {PatternFlags[i] : i \in 1..8} |-> f = pattern])

\* values of the grid size slider that are explored
GridSizes == {2, 3}

\* AnimationControls.handleGridSizeChange
handleGridSizeChange ==
  \E value \in GridSizes :
    /\ value # storeSettings.gridSize
    /\ storeUpdateSettings([gridSize |-> value])

\* the spiral modifier switch of AnimationControls
ToggleSpiralModifier ==
  storeUpdateSettings([enableSpiralModifier |-> ~storeSettings.enableSpiralModifier])

\* the flicker switch of AnimationControls
ToggleFlicker == storeUpdateSettings([enableFlicker |-> ~storeSettings.enableFlicker])

\* the media that can be uploaded
Uploads == {[url |-> "blob:image", type |-> "image"], [url |-> "blob:video", type |-> "video"]}

\* MediaUpload.handleFileSelect
handleFileSelect ==
  \E file \in Uploads :
    storeUpdateSettings([mediaUrl |-> file.url, mediaType |-> file.type,
                         displayMode |-> "media", enableMediaMode |-> TRUE])

\* MediaUpload.handleClearMedia (the button is shown while mediaUrl is set)
handleClearMedia ==
  /\ storeSettings.mediaUrl # "null"
  /\ storeUpdateSettings([mediaUrl |-> "null", mediaType |-> "null",
                          displayMode |-> "led", enableMediaMode |-> FALSE])

\* the three display mode buttons of App.tsx
SetDisplayMode ==
  \E mode \in {"led", "media", "combined"} :
    storeUpdateSettings([displayMode |-> mode, enableMediaMode |-> mode # "led"])

\* LayersPanel.toggleLayerVisibility('media')
toggleLayerVisibility ==
  storeUpdateSettings([displayMode |-> IF storeSettings.displayMode = "led"
                                       THEN "media" ELSE "led"])

\* the sequence without its i-th element
Without(seq, i) == SubSeq(seq, 1, i - 1) \o SubSeq(seq, i + 1, Len(seq))

\* the loadeddata / load event of a pending load: the element is installed,
\* processed and the promise resolved
MediaLoaded ==
  \E i \in 1..Len(media.loads) :
    /\ media' = processMediaFrame([media EXCEPT !.mediaElement = media.loads[i],
                                                !.loads = Without(@, i)],
                                  settings, now)
    /\ UNCHANGED <<lifecycle, overlap, resetAt, history, now, lastFrameTime, settings, storeSettings, shape, playbackState, store,
                   exportSettings, ledGrid, exp, frames, inputs, cycleTime, animatedPoints>>

\* an error event that also drops the media shown so far
MediaErrorClears ==
  \E i \in 1..Len(media.loads) :
    /\ media' = clearMedia([media EXCEPT !.loads = Without(@, i), !.rejected = @ + 1])
    /\ UNCHANGED <<lifecycle, overlap, resetAt, history, now, lastFrameTime, settings, storeSettings, shape, playbackState, store,
                   exportSettings, ledGrid, exp, frames, inputs, cycleTime, animatedPoints>>

\* the error event of a pending load: the promise is rejected, and the catch
\* of updateSettings logs the failure
MediaError ==
  \E i \in 1..Len(media.loads) :
    /\ media' = [media EXCEPT !.loads = Without(@, i), !.rejected = @ + 1]
    /\ UNCHANGED <<lifecycle, overlap, resetAt, history, now, lastFrameTime, settings, storeSettings, shape, playbackState, store,
                   exportSettings, ledGrid, exp, frames, inputs, cycleTime, animatedPoints>>

(***************************************************************************)
(* Export loops: engine.exportSequence (PNG frames) and the loops of       *)
(* exportLottieJSON and exportAfterEffectsScript in ExportControls.tsx.    *)
(* An async function runs until its next await in one step, so an action   *)
(* is the code between two awaits.  outcome names the call that throws in  *)
(* the iteration, or is "ok".                                              *)
(***************************************************************************)
\* Math.floor((animationDuration * 2 * cycles / 1000) * fps)
TotalFrames(duration, cycles, fps) == JsFloor(JsMul(JsDiv(duration * 2 * cycles, 1000), fps))

\* (i / fps) * 1000 ms
FrameTime(i, fps) == (i * 1000 * Ms) \div fps

\* what the material of an element shows after render(): nothing unless
\* brightness > 30
Shown(led) == IF led.brightness > 30000 THEN led.brightness ELSE 0

\* a frame as the exporter captures it, with the state it was computed from
Capture(e, i, ps, computed, captured) ==
  [run |-> e.run, kind |-> e.kind, index |-> i,
   time |-> ps.currentTime, isPlaying |-> ps.isPlaying, isReversed |-> ps.isReversed,
   pulseScale |-> ps.pulseScale,
   target |-> [c \in DOMAIN computed |-> computed[c].targetBrightness],
   color |-> [c \in DOMAIN computed |-> computed[c].currentColor],
   captured |-> captured]

Restore(ps, e) ==
  [ps EXCEPT !.isPlaying = e.originalPlaying, !.startTime = e.originalStartTime,
             !.currentTime = e.originalTime]

\* one iteration of the loop of exportSequence (lines 986-995), given the
\* state ps1 with the injected time and the result u of updateAnimation
PngFrameFrom(e, i, outcome, ps1, grid, u) ==
  IF outcome = "updateAnimation"
  THEN [ps |-> ps1, grid |-> grid, frame |-> <<>>, cycleTime |-> <<>>,
        media |-> media, points |-> animatedPoints]
  ELSE IF outcome = "render"
  THEN [ps |-> u.ps, grid |-> u.grid, frame |-> <<>>, cycleTime |-> u.cycleTime,
        media |-> u.media, points |-> u.points]
  ELSE IF outcome = "exportFrame"
  THEN [ps |-> u.ps, grid |-> render(u.grid), frame |-> <<>>, cycleTime |-> u.cycleTime,
        media |-> u.media, points |-> u.points]
  ELSE [ps |-> u.ps, grid |-> render(u.grid), cycleTime |-> u.cycleTime,
        media |-> u.media, points |-> u.points,
        frame |-> <<Capture(e, i, u.ps, u.grid,
                            [c \in DOMAIN u.grid |-> Shown(render(u.grid)[c])])>>]

\* playbackState.currentTime = (i / fps) * 1000; updateAnimation(); render();
\* frames.push(exportFrame())
PngFrame(e, ps, grid, i, outcome) ==
  PngFrameFrom(e, i, outcome, [ps EXCEPT !.currentTime = FrameTime(i, e.fps)], grid,
               updateAnimation([ps EXCEPT !.currentTime = FrameTime(i, e.fps)],
                               grid, settings, shape, media, now))

\* one iteration of the loop of exportLottieJSON (lines 315-360) and of
\* exportAfterEffectsScript (lines 142-163), given the state ps1 with the
\* injected time and the result u of updateAnimation
LottieFrameFrom(e, i, outcome, ps1, grid, u) ==
  IF outcome = "updateAnimation"
  THEN [ps |-> ps1, grid |-> grid, frame |-> <<>>, cycleTime |-> <<>>,
        media |-> media, points |-> animatedPoints]
  ELSE [ps |-> u.ps, grid |-> u.grid, cycleTime |-> u.cycleTime,
        media |-> u.media, points |-> u.points,
        frame |-> <<Capture(e, i, u.ps, u.grid,
                            [c \in DOMAIN u.grid |-> u.grid[c].brightness])>>]

\* the injected time of the Lottie and After Effects loops: startTime =
\* Date.now() - targetTime; currentTime = targetTime
InjectTime(ps, targetTime) ==
  [ps EXCEPT !.startTime = now - targetTime, !.currentTime = targetTime]

LottieFrame(e, ps, grid, i, outcome) ==
  LottieFrameFrom(e, i, outcome, InjectTime(ps, FrameTime(i, e.fps)), grid,
                  updateAnimation(InjectTime(ps, FrameTime(i, e.fps)),
                                  grid, settings, shape, media, now))

\* the calls of an iteration that can throw
Outcomes(kind) ==
  IF kind = "png" THEN {"ok", "updateAnimation", "render", "exportFrame"}
  ELSE {"ok", "updateAnimation"}

\* the loop suspended at its await after frame f, or left by the throw
IterationResult(e, i, outcome, f) ==
  [ps |-> f.ps, grid |-> f.grid, frame |-> f.frame, cycleTime |-> f.cycleTime,
   media |-> f.media, points |-> f.points,
   exp |-> IF outcome = "ok"
           THEN [e EXCEPT !.pc = "await", !.i = i]
           ELSE [e EXCEPT !.pc = "failed", !.i = i, !.post = f.ps,
                          !.thrownBy = outcome]]

\* the loop test for index i and what follows it up to the next await, the
\* return or the throw
ExportIteration(e, ps, grid, i, outcome) ==
  IF i >= e.totalFrames
  THEN [ps |-> Restore(ps, e), grid |-> grid, frame |-> <<>>, cycleTime |-> <<>>,
        media |-> media, points |-> animatedPoints,
        exp |-> [e EXCEPT !.pc = "done", !.i = i, !.post = Restore(ps, e)]]
  ELSE IterationResult(e, i, outcome,
                       IF e.kind = "png" THEN PngFrame(e, ps, grid, i, outcome)
                       ELSE LottieFrame(e, ps, grid, i, outcome))

\* the effect of a stretch of an export loop on the state
ExportStep(r) ==
  /\ playbackState' = r.ps
  /\ ledGrid' = r.grid
  /\ exp' = r.exp
  /\ frames' = frames \o r.frame
  /\ cycleTime' = Computed(r.cycleTime, cycleTime)
  /\ media' = r.media
  /\ animatedPoints' = r.points
  /\ UNCHANGED <<lifecycle, overlap, resetAt, history, now, lastFrameTime, settings, storeSettings, shape, store, exportSettings, inputs>>

\* the values an export saves before its loop
SavedState(kind, fps, cycles) ==
  [NoExport EXCEPT
     !.kind = kind, !.run = exp.run + 1, !.fps = fps,
     !.totalFrames = TotalFrames(settings.animationDuration, cycles, fps),
     !.originalPlaying = playbackState.isPlaying,
     !.originalTime = playbackState.currentTime,
     !.originalStartTime = playbackState.startTime,
     !.pre = playbackState]

\* an export from its call to its first await; ps0 is the playback state
\* the export sets up before the loop
StartExport(e0, ps0, outcome) ==
  /\ exp.pc \in {"idle", "done", "failed"}
  /\ exp.run < MaxExports
  /\ outcome \in Outcomes(e0.kind)
  /\ e0.totalFrames = 0 => outcome = "ok"
  /\ ExportStep(ExportIteration(e0, ps0, ledGrid, 0, outcome))

\* engine.exportSequence(exportSettings) up to its first await
exportSequence ==
  \E outcome \in Outcomes("png") :
    StartExport(SavedState("png", exportSettings.fps, exportSettings.cycles),
                [playbackState EXCEPT !.isPlaying = FALSE, !.startTime = now,
                                      !.currentTime = 0],
                outcome)

\* exportLottieJSON(isPreview) up to its first await
exportLottieJSON ==
  \E isPreview \in BOOLEAN, outcome \in Outcomes("lottie") :
    StartExport(SavedState("lottie", IF isPreview THEN LottiePreviewFps ELSE LottieFps, 1),
                [playbackState EXCEPT !.isPlaying = TRUE], outcome)

\* exportAfterEffectsScript up to its first await
exportAfterEffectsScript ==
  \E outcome \in Outcomes("ae") :
    StartExport(SavedState("ae", AfterEffectsFps, 1),
                [playbackState EXCEPT !.isPlaying = TRUE], outcome)

\* an export loop resumes after "await new Promise(r => setTimeout(r, 1))";
\* the millisecond of the timer is below the granularity of the clock
exportResume ==
  \E outcome \in Outcomes(exp.kind) :
    /\ exp.pc = "await"
    /\ exp.i + 1 >= exp.totalFrames => outcome = "ok"
    /\ ExportStep(ExportIteration(exp, playbackState, ledGrid, exp.i + 1, outcome))

\* the effect of a stretch of the second, overlapping export loop on the
\* state
OverlapStep(r) ==
  /\ playbackState' = r.ps
  /\ ledGrid' = r.grid
  /\ overlap' = r.exp
  /\ frames' = frames \o r.frame
  /\ cycleTime' = Computed(r.cycleTime, cycleTime)
  /\ media' = r.media
  /\ animatedPoints' = r.points
  /\ UNCHANGED <<now, lastFrameTime, settings, storeSettings, shape, store, exportSettings,
                 inputs, exp, lifecycle, resetAt, history>>

\* a second engine.exportSequence(exportSettings), called while the loop of
\* the first one waits at its await, up to its own first await: it saves the
\* playback state the first call has overridden
exportSequenceOverlap ==
  \E outcome \in Outcomes("png") :
    /\ exp.kind = "png"
    /\ exp.pc = "await"
    /\ overlap.pc = "idle"
    /\ SavedState("png", exportSettings.fps, exportSettings.cycles).totalFrames = 0 =>
         outcome = "ok"
    /\ OverlapStep(ExportIteration(
                     SavedState("png", exportSettings.fps, exportSettings.cycles),
                     [playbackState EXCEPT !.isPlaying = FALSE, !.startTime = now,
                                           !.currentTime = 0],
                     ledGrid, 0, outcome))

\* the second export loop resumes after its await
exportResumeOverlap ==
  \E outcome \in Outcomes("png") :
    /\ overlap.pc = "await"
    /\ overlap.i + 1 >= overlap.totalFrames => outcome = "ok"
    /\ OverlapStep(ExportIteration(overlap, playbackState, ledGrid, overlap.i + 1, outcome))

(***************************************************************************)
(* UndoRedoManager.  A command is known by its name; the stacks are the    *)
(* arrays of the class, the last element being the top.                    *)
(***************************************************************************)
Commands == {"a", "b", "c"}

\* an execute that never drops a command
executeWithoutLimit(command) ==
  /\ undoStack' = Append(undoStack, command)
  /\ redoStack' = <<>>
  /\ UNCHANGED <<lifecycle, overlap, resetAt, maxStackSize, now, lastFrameTime, settings,
                 storeSettings, shape, playbackState, store, exportSettings, ledGrid, exp,
                 frames, inputs, cycleTime, media, animatedPoints>>

\* UndoRedoManager.execute(command): push, shift() when the stack is longer
\* than maxStackSize, and a new redo stack
execute(command) ==
  /\ LET pushed == Append(undoStack, command)
     IN  undoStack' = IF Len(pushed) > maxStackSize THEN Tail(pushed) ELSE pushed
  /\ redoStack' = <<>>
  /\ UNCHANGED <<lifecycle, overlap, resetAt, maxStackSize, now, lastFrameTime, settings,
                 storeSettings, shape, playbackState, store, exportSettings, ledGrid, exp,
                 frames, inputs, cycleTime, media, animatedPoints>>

\* UndoRedoManager.undo(): pop() of an empty stack returns false and changes
\* nothing
undo ==
  /\ undoStack # <<>>
  /\ undoStack' = SubSeq(undoStack, 1, Len(undoStack) - 1)
  /\ redoStack' = Append(redoStack, undoStack[Len(undoStack)])
  /\ UNCHANGED <<lifecycle, overlap, resetAt, maxStackSize, now, lastFrameTime, settings,
                 storeSettings, shape, playbackState, store, exportSettings, ledGrid, exp,
                 frames, inputs, cycleTime, media, animatedPoints>>

\* UndoRedoManager.redo(): the popped command goes back on the undo stack,
\* with no look at maxStackSize
redo ==
  /\ redoStack # <<>>
  /\ redoStack' = SubSeq(redoStack, 1, Len(redoStack) - 1)
  /\ undoStack' = Append(undoStack, redoStack[Len(redoStack)])
  /\ UNCHANGED <<lifecycle, overlap, resetAt, maxStackSize, now, lastFrameTime, settings,
                 storeSettings, shape, playbackState, store, exportSettings, ledGrid, exp,
                 frames, inputs, cycleTime, media, animatedPoints>>

\* UndoRedoManager.clear()
clear ==
  /\ undoStack' = <<>>
  /\ redoStack' = <<>>
  /\ UNCHANGED <<lifecycle, overlap, resetAt, maxStackSize, now, lastFrameTime, settings,
                 storeSettings, shape, playbackState, store, exportSettings, ledGrid, exp,
                 frames, inputs, cycleTime, media, animatedPoints>>

Next ==
  \/ AdvanceTime
  \/ animate
  \/ EngineReset
  \/ handlePlay
  \/ handlePause
  \/ KeySpacePlay
  \/ KeyReverse
  \/ handleReverse
  \/ handleReset
  \/ TransportPlay
  \/ TransportReset
  \/ handleStepBack
  \/ handleStepForward
  \/ exportSequence
  \/ exportLottieJSON
  \/ exportAfterEffectsScript
  \/ exportResume
  \/ KeyToggle
  \/ PatternSelect
  \/ handleGridSizeChange
  \/ ToggleFlicker
  \/ handleFileSelect
  \/ handleClearMedia
  \/ SetDisplayMode
  \/ toggleLayerVisibility
  \/ MediaLoaded
  \/ MediaError
  \/ dispose
  \/ ToggleSpiralModifier
  \/ AdvanceFrame
  \/ exportSequenceOverlap
  \/ exportResumeOverlap
  \/ \E command \in Commands : execute(command)
  \/ undo
  \/ redo
  \/ clear

Spec == Init /\ [][Next]_vars

(***************************************************************************)
(* Scenarios.  A session that uses the playback controls, a session that   *)
(* exports, and exports with durations and frame rates of the sliders.     *)
(***************************************************************************)
NextPlayback ==
  \/ AdvanceTime
  \/ animate
  \/ EngineReset
  \/ handlePlay
  \/ handlePause
  \/ KeySpacePlay
  \/ KeyReverse
  \/ handleReverse
  \/ handleReset
  \/ TransportPlay
  \/ TransportReset
  \/ handleStepBack
  \/ handleStepForward

SpecPlayback == Init /\ [][NextPlayback]_vars

NextExport ==
  \/ AdvanceTime
  \/ animate
  \/ exportSequence
  \/ exportLottieJSON
  \/ exportAfterEffectsScript
  \/ exportResume

SpecExport == Init /\ [][NextExport]_vars

\* values of the duration slider (100..5000 ms), the FPS slider (12..120)
\* and the cycles slider (1..5) of the panels
FrameDurations == {145, 290}
FrameRates == {25, 50}
FrameCycles == {1, 2}

\* the mounted application after the sliders have been moved
InitFrames ==
  /\ now = 60
  /\ lastFrameTime = 60 - (60 % FrameInterval)
  /\ settings \in {[RotatingSettings EXCEPT !.animationDuration = d] : d \in FrameDurations}
  /\ storeSettings = settings
  /\ media = NoMedia
  /\ animatedPoints = <<>>
  /\ shape = createPulsingShape(settings)
  /\ store = NewPlaybackState(30)
  /\ playbackState = store
  /\ exportSettings \in [fps : FrameRates, cycles : FrameCycles]
  /\ ledGrid = createLEDGrid(settings)
  /\ exp = NoExport
  /\ frames = <<>>
  /\ inputs = 0
  /\ cycleTime = 0
  /\ animationId = "requested"
  /\ disposals = 0
  /\ overlap = NoExport
  /\ resetAt = -1
  /\ undoStack = <<>>
  /\ redoStack = <<>>
  /\ maxStackSize = 100

NextFrames ==
  \/ exportSequence
  \/ exportResume

SpecFrames == InitFrames /\ [][NextFrames]_vars

\* the mounted application with the default pattern
InitPanels ==
  /\ now = 60
  /\ lastFrameTime = 60 - (60 % FrameInterval)
  /\ settings = BaseSettings
  /\ storeSettings = settings
  /\ media = NoMedia
  /\ animatedPoints = <<>>
  /\ shape = createPulsingShape(settings)
  /\ store = NewPlaybackState(30)
  /\ playbackState = store
  /\ exportSettings = DefaultExportSettings
  /\ ledGrid = createLEDGrid(settings)
  /\ exp = NoExport
  /\ frames = <<>>
  /\ inputs = 0
  /\ cycleTime = 0
  /\ animationId = "requested"
  /\ disposals = 0
  /\ overlap = NoExport
  /\ resetAt = -1
  /\ undoStack = <<>>
  /\ redoStack = <<>>
  /\ maxStackSize = 100

\* a session that uses the pattern selector, the grid size slider and the
\* toggle keys
NextPanels ==
  \/ AdvanceTime
  \/ animate
  \/ KeyToggle
  \/ PatternSelect
  \/ handleGridSizeChange

SpecPanels == InitPanels /\ [][NextPanels]_vars

\* a session in which the canvas is unmounted, possibly while an export runs
NextDispose ==
  \/ AdvanceTime
  \/ animate
  \/ exportSequence
  \/ exportResume
  \/ dispose

SpecDispose == Init /\ [][NextDispose]_vars

\* a session in which exportSequence is called again while it is running;
\* the two loops interleave at their awaits
NextOverlap ==
  \/ exportSequence
  \/ exportResume
  \/ exportSequenceOverlap
  \/ exportResumeOverlap

SpecOverlap == Init /\ [][NextOverlap]_vars

\* the settings after handleFileSelect(file) on the default settings
UploadedSettings(file) ==
  [BaseSettings EXCEPT !.mediaUrl = file.url, !.mediaType = file.type,
                       !.displayMode = "media", !.enableMediaMode = TRUE]

\* the mounted application, either without media or after a file has been
\* uploaded and its load has completed
InitMedia ==
  /\ now = 60
  /\ lastFrameTime = 60 - (60 % FrameInterval)
  /\ \/ /\ settings = BaseSettings
        /\ media = NoMedia
     \/ \E file \in Uploads :
          /\ settings = UploadedSettings(file)
          /\ media = processMediaFrame(
                       [NoMedia EXCEPT !.mediaElement = [url |-> file.url, type |-> file.type]],
                       UploadedSettings(file), 60)
  /\ storeSettings = settings
  /\ animatedPoints = <<>>
  /\ shape = createPulsingShape(settings)
  /\ store = NewPlaybackState(30)
  /\ playbackState = store
  /\ exportSettings = DefaultExportSettings
  /\ ledGrid = createLEDGrid(settings)
  /\ exp = NoExport
  /\ frames = <<>>
  /\ inputs = 0
  /\ cycleTime = 0
  /\ animationId = "requested"
  /\ disposals = 0
  /\ overlap = NoExport
  /\ resetAt = -1
  /\ undoStack = <<>>
  /\ redoStack = <<>>
  /\ maxStackSize = 100

\* a session that uploads media and switches the display mode
NextMedia ==
  \/ AdvanceTime
  \/ animate
  \/ handleFileSelect
  \/ handleClearMedia
  \/ SetDisplayMode
  \/ toggleLayerVisibility
  \/ handleGridSizeChange
  \/ ToggleFlicker
  \/ MediaLoaded
  \/ MediaError

SpecMedia == InitMedia /\ [][NextMedia]_vars

\* positions of the spiral intensity slider (0..2) and of the flicker amount
\* slider (0..1) that are explored, in thousandths
ModifierSliders == {[spiralIntensity |-> 2000, flickerAmount |-> 200],
                    [spiralIntensity |-> 2000, flickerAmount |-> 1000]}

\* the mounted application after the modifier sliders have been moved,
\* without media or with an uploaded image shown together with the pattern
InitModifiers ==
  /\ now = 60
  /\ lastFrameTime = 60 - (60 % FrameInterval)
  /\ \E sliders \in ModifierSliders :
       \/ /\ settings = Merge(BaseSettings, sliders)
          /\ media = NoMedia
       \/ \E file \in {f \in Uploads : f.type = "image"} :
            /\ settings = Merge([UploadedSettings(file) EXCEPT !.displayMode = "combined"],
                                sliders)
            /\ media = processMediaFrame(
                         [NoMedia EXCEPT !.mediaElement = [url |-> file.url, type |-> file.type]],
                         UploadedSettings(file), 60)
  /\ storeSettings = settings
  /\ animatedPoints = <<>>
  /\ shape = createPulsingShape(settings)
  /\ store = NewPlaybackState(30)
  /\ playbackState = store
  /\ exportSettings = DefaultExportSettings
  /\ ledGrid = createLEDGrid(settings)
  /\ exp = NoExport
  /\ frames = <<>>
  /\ inputs = 0
  /\ cycleTime = 0
  /\ animationId = "requested"
  /\ disposals = 0
  /\ overlap = NoExport
  /\ resetAt = -1
  /\ undoStack = <<>>
  /\ redoStack = <<>>
  /\ maxStackSize = 100

\* a session that switches patterns, modifiers and display modes
NextModifiers ==
  \/ AdvanceTime
  \/ animate
  \/ KeyToggle
  \/ PatternSelect
  \/ ToggleSpiralModifier
  \/ ToggleFlicker
  \/ SetDisplayMode

SpecModifiers == InitModifiers /\ [][NextModifiers]_vars

\* the brightness the elements have when playback is paused: dark or fully
\* lit
EasingStarts == {0, 255000}

\* the instants at which playback was paused (thirds of ms of animation time)
PausedTimes == {0, 75}

\* the mounted application with playback paused, so that every frame
\* computes the same targets, showing the default pattern or the static
\* shape
InitEasing ==
  /\ now = 60
  /\ lastFrameTime = 60 - (60 % FrameInterval)
  /\ settings \in {BaseSettings, [BaseSettings EXCEPT !.enableBuildDebuild = FALSE]}
  /\ storeSettings = settings
  /\ media = NoMedia
  /\ animatedPoints = <<>>
  /\ shape = createPulsingShape(settings)
  /\ \E t \in PausedTimes :
       store = [NewPlaybackState(30) EXCEPT !.isPlaying = FALSE, !.currentTime = t]
  /\ playbackState = store
  /\ exportSettings = DefaultExportSettings
  /\ \E b \in EasingStarts :
       ledGrid = [c \in Cells(settings) |-> [createLEDGrid(settings)[c] EXCEPT !.brightness = b]]
  /\ exp = NoExport
  /\ frames = <<>>
  /\ inputs = 0
  /\ cycleTime = 0
  /\ animationId = "requested"
  /\ disposals = 0
  /\ overlap = NoExport
  /\ resetAt = -1
  /\ undoStack = <<>>
  /\ redoStack = <<>>
  /\ maxStackSize = 100

NextEasing ==
  \/ AdvanceFrame
  \/ animate

\* the condition under which the requestAnimationFrame callback computes a
\* frame
FrameDue == animationId = "requested" /\ now - lastFrameTime >= FrameInterval

\* time passes and the browser keeps calling the requestAnimationFrame
\* callback: weak fairness of AdvanceFrame and of animate, the latter with
\* its enabling condition FrameDue written out
SpecEasing ==
  /\ InitEasing
  /\ [][NextEasing]_vars
  /\ WF_vars(AdvanceFrame)
  /\ ([]<>(~FrameDue) \/ []<><<animate>>_vars)

\* the instants (ms after the start anchor) at which the envelope is
\* sampled: every 50 ms of two cycles of 1000 ms, and the millisecond before
\* and after the phase boundaries and the cycle wrap
EnvelopeTimes ==
  {50 * k : k \in 0..40} \cup {799, 801, 1199, 1201, 1999, 2001, 1, 2000}

\* a session of an UndoRedoManager constructed with a small maxStackSize
StackSizes == 0..StackLimit

InitHistory ==
  /\ now = 60
  /\ lastFrameTime = 60 - (60 % FrameInterval)
  /\ settings \in InitSettings
  /\ storeSettings = settings
  /\ media = NoMedia
  /\ animatedPoints = <<>>
  /\ shape = createPulsingShape(settings)
  /\ store = NewPlaybackState(30)
  /\ playbackState = store
  /\ exportSettings = DefaultExportSettings
  /\ ledGrid = createLEDGrid(settings)
  /\ exp = NoExport
  /\ frames = <<>>
  /\ inputs = 0
  /\ cycleTime = 0
  /\ animationId = "requested"
  /\ disposals = 0
  /\ overlap = NoExport
  /\ resetAt = -1
  /\ undoStack = <<>>
  /\ redoStack = <<>>
  /\ maxStackSize \in StackSizes

NextHistory ==
  \/ \E command \in Commands : execute(command)
  \/ undo
  \/ redo
  \/ clear

SpecHistory == InitHistory /\ [][NextHistory]_vars

\* the mounted application with animationDuration = 1000 ms and the default
\* pattern (build-debuild only), playing forward or reversed, at an instant
\* at which a frame is due
InitEnvelope ==
  /\ \E t \in EnvelopeTimes : now = 30 + t * Ms
  /\ lastFrameTime = now - FrameInterval
  /\ settings = [BaseSettings EXCEPT !.animationDuration = 1000]
  /\ storeSettings = settings
  /\ media = NoMedia
  /\ animatedPoints = <<>>
  /\ shape = createPulsingShape(settings)
  /\ \E r \in BOOLEAN : store = [NewPlaybackState(30) EXCEPT !.isReversed = r]
  /\ playbackState = store
  /\ exportSettings = DefaultExportSettings
  /\ ledGrid = createLEDGrid(settings)
  /\ exp = NoExport
  /\ frames = <<>>
  /\ inputs = 0
  /\ cycleTime = 0
  /\ animationId = "requested"
  /\ disposals = 0
  /\ overlap = NoExport
  /\ resetAt = -1
  /\ undoStack = <<>>
  /\ redoStack = <<>>
  /\ maxStackSize = 100

NextEnvelope ==
  \/ animate

SpecEnvelope == InitEnvelope /\ [][NextEnvelope]_vars

(***************************************************************************)
(* Properties of the export loops.                                         *)
(***************************************************************************)
\* C1: when a step of the per-frame loop of exportSequence throws, the
\* playback state at the moment the exception leaves exportSequence equals
\* the playback state immediately before the call, in every field.
C1_ThrowRestoresPlaybackState ==
  (exp.kind = "png" /\ exp.pc = "failed" /\ ~exp.touched) => exp.post = exp.pre

\* C2: when an export loop (exportSequence, Lottie, After Effects) returns
\* normally and nothing but animation ticks ran at its yields, the playback
\* state it leaves equals the playback state before the export in all seven
\* fields.
C2_ExportRestoresPlaybackState ==
  (exp.pc = "done" /\ ~exp.touched) => exp.post = exp.pre

\* the frame a newly constructed engine (startTime 0, nothing computed
\* before) computes for the settings at a wall-clock time equal to the
\* injected time, so that its currentTime is the injected time
ReferenceFrame(time) ==
  updateAnimation(NewPlaybackState(0), createLEDGrid(settings), settings, shape, media,
                  time).grid

\* C3: for fixed settings and a fixed injected currentTime every invocation
\* of the frame computation yields the same targetBrightness and
\* currentColor for every element, whatever the wall-clock time, the number
\* of frames computed before and the playback state before the injection:
\* each captured frame equals the frame a fresh engine computes for its
\* injected time.
C3_FrameDependsOnInjectedTimeOnly ==
  \A k \in 1..Len(frames) :
    \A c \in DOMAIN frames[k].target :
      /\ frames[k].target[c] = ReferenceFrame(frames[k].time)[c].targetBrightness
      /\ frames[k].color[c] = ReferenceFrame(frames[k].time)[c].currentColor

\* C4: every frame of exportSequence is computed with the injected time
\* i * 1000 / fps and with the time-derived playback state of that time:
\* the pulseScale used for the frame is the build-debuild envelope at the
\* cycle position of the injected time (1 when build-debuild is off).
C4_FrameStateBelongsToInjectedTime ==
  \A k \in 1..Len(frames) :
    frames[k].kind = "png" =>
      /\ frames[k].time = (frames[k].index * 1000 * Ms) \div exportSettings.fps
      /\ frames[k].pulseScale =
           IF settings.enableBuildDebuild
           THEN Envelope(IF frames[k].isReversed
                         THEN CycleLength(settings) - (frames[k].time % CycleLength(settings))
                         ELSE frames[k].time % CycleLength(settings), settings)
           ELSE 1000

\* C5: every export path takes the value it captures for an element from
\* the targetBrightness computed for the frame, never from the eased
\* brightness: the Lottie and After Effects frames hold targetBrightness,
\* and a PNG frame shows an element exactly when its targetBrightness is
\* above the display threshold, at that brightness.
C5_CapturedFromTargets ==
  \A k \in 1..Len(frames) :
    \A c \in DOMAIN frames[k].target :
      frames[k].captured[c] =
        IF frames[k].kind = "png"
        THEN (IF frames[k].target[c] > 30000 THEN frames[k].target[c] ELSE 0)
        ELSE frames[k].target[c]

\* C6: exportSequence returns exactly floor(cycles * 2 * animationDuration *
\* fps / 1000) frames, in increasing order, frame i being computed with
\* currentTime = i * 1000 / fps.
C6_FrameCount ==
  (exp.kind = "png" /\ exp.pc = "done") =>
    /\ Len(frames) = (exportSettings.cycles * 2 * settings.animationDuration
                        * exportSettings.fps) \div 1000
    /\ \A k \in 1..Len(frames) :
         /\ frames[k].index = k - 1
         /\ frames[k].time = ((k - 1) * 1000 * Ms) \div exportSettings.fps

(***************************************************************************)
(* Properties of the playback controls.                                    *)
(***************************************************************************)
\* C7: playback is frozen while paused: a tick of a paused engine changes
\* none of currentTime, rotationAngle, yRotateAngle and pulseScale, and a
\* pause through the playback controls (pause button, Space key, step
\* buttons) leaves the engine's currentTime and pulseScale as the last
\* playing tick left them.
C7_FrozenWhilePaused ==
  [][/\ (animate /\ ~playbackState.isPlaying) =>
          /\ playbackState'.currentTime = playbackState.currentTime
          /\ playbackState'.rotationAngle = playbackState.rotationAngle
          /\ playbackState'.yRotateAngle = playbackState.yRotateAngle
          /\ playbackState'.pulseScale = playbackState.pulseScale
     /\ (handlePause \/ handleStepBack \/ handleStepForward) =>
          /\ playbackState'.currentTime = playbackState.currentTime
          /\ playbackState'.pulseScale = playbackState.pulseScale]_vars

\* C8: for every currentTime t the cycle time updateAnimation uses when
\* isReversed is true is 2 * D - (t mod 2 * D), and t mod 2 * D when it is
\* false; every tick of a playing engine computes its cycle time that way;
\* the reverse control switches the engine to the reversed mapping and the
\* play control back to the forward one.
C8_ReversedCycleTime ==
  [][/\ \A t \in 0..MaxNow :
          /\ CycleTime(t, settings, FALSE) = t % (2 * settings.animationDuration * Ms)
          /\ CycleTime(t, settings, TRUE)
               = 2 * settings.animationDuration * Ms - CycleTime(t, settings, FALSE)
     /\ (animate /\ playbackState.isPlaying) =>
          cycleTime' = IF playbackState.isReversed
                       THEN 2 * settings.animationDuration * Ms
                              - (playbackState'.currentTime
                                   % (2 * settings.animationDuration * Ms))
                       ELSE playbackState'.currentTime
                              % (2 * settings.animationDuration * Ms)
     /\ handleReverse => (playbackState'.isPlaying /\ playbackState'.isReversed)
     /\ handlePlay => (playbackState'.isPlaying /\ ~playbackState'.isReversed)]_vars

\* a tick of a reversed, playing engine has computed the reversed cycle time
C8_Witness ==
  /\ playbackState.isPlaying
  /\ playbackState.isReversed
  /\ playbackState.currentTime > 0
  /\ cycleTime = CycleLength(settings) - (playbackState.currentTime % CycleLength(settings))
  /\ cycleTime # playbackState.currentTime % CycleLength(settings)

\* C9: reverse() on an engine that plays forward gives startTime a new
\* wall-clock anchor, chosen so that the cycle position a tick computes
\* right after the call is the position a tick computed right before it.
C9_ReverseReanchors ==
  (playbackState.isPlaying /\ ~playbackState.isReversed) =>
    /\ reverse(playbackState).startTime # playbackState.startTime
    /\ CycleTime(now - reverse(playbackState).startTime, settings, TRUE)
         = CycleTime(now - playbackState.startTime, settings, FALSE)

\* C10: immediately after a reset (engine.reset() by the R key or a canvas
\* click, PlaybackControls reset, Transport reset), from any playback
\* state, the engine's startTime is the wall-clock time, rotationAngle and
\* yRotateAngle are 0 and pulseScale is 0.2.
C10_ResetState ==
  [][(EngineReset \/ handleReset \/ TransportReset) =>
       /\ playbackState'.startTime = now
       /\ playbackState'.rotationAngle = 0
       /\ playbackState'.yRotateAngle = 0
       /\ playbackState'.pulseScale = 200]_vars

\* a reset has acted on an engine that had computed frames
C10_Witness ==
  /\ inputs > 0
  /\ cycleTime > 0
  /\ now > 60
  /\ playbackState.startTime = now
  /\ playbackState.rotationAngle = 0
  /\ playbackState.yRotateAngle = 0
  /\ playbackState.pulseScale = 200

\* C11: stepForward sets the engine's currentTime to its currentTime just
\* before the step plus 1000/60 ms, stepBack to the maximum of 0 and its
\* currentTime just before the step minus 1000/60 ms, and both leave the
\* engine paused (so that stepForward then stepBack on an engine paused at
\* T >= 1000/60 ms gives T again).
C11_StepMovesOneFrame ==
  [][/\ handleStepForward =>
          /\ playbackState'.currentTime = playbackState.currentTime + StepMs
          /\ ~playbackState'.isPlaying
     /\ handleStepBack =>
          /\ playbackState'.currentTime = Max(0, playbackState.currentTime - StepMs)
          /\ ~playbackState'.isPlaying]_vars

(***************************************************************************)
(* Properties of the pattern pass, the settings and the media.             *)
(***************************************************************************)
\* the source tag of the points of a pattern flag
SourceOf ==
  [enableBuildDebuild |-> "buildDebuild", enableSpiral |-> "spiral",
   enableWave |-> "wave", enableRipple |-> "ripple", enablePulse |-> "pulse",
   enableScanner |-> "scanner", enableSparkle |-> "sparkle", enableRadar |-> "radar"]

\* C12: in every frame all points of animatedPoints come from one source:
\* the first enabled pattern in the order buildDebuild, spiral, wave,
\* ripple, pulse, scanner, sparkle, radar, or the static fallback when and
\* only when no pattern flag is set; points of two sources never coexist.
C12_SinglePointSource ==
  [][animate =>
       \A i \in 1..Len(animatedPoints') :
         animatedPoints'[i].source =
           IF SelectedPattern(settings) = "none" THEN "static"
           ELSE SourceOf[SelectedPattern(settings)]]_vars

\* the transformed points of a frame
Transformed(points, ps, s) == [i \in 1..Len(points) |-> Transform(points[i], ps, s)]

\* the brightness values of the transformed points that are mapped and lie
\* strictly closer than 0.7 * ledSpacing to the element
InRange(led, pts, s) ==
  {pts[i].brightness : i \in {j \in 1..Len(pts) :
      /\ pts[j].drawn
      /\ (pts[j].x - led.originalX) * (pts[j].x - led.originalX)
           + (pts[j].y - led.originalY) * (pts[j].y - led.originalY)
         < (s.ledSpacing * 70) * (s.ledSpacing * 70)}}

MaxOf(values) == IF values = {} THEN 0 ELSE CHOOSE v \in values : \A w \in values : v >= w

\* the transformed points of a frame in the opposite order
TransformedBackwards(points, ps, s) ==
  LET n == Len(points) IN [i \in 1..n |-> Transform(points[n + 1 - i], ps, s)]

\* C13: after the pattern pass of a frame the targetBrightness of every
\* element is the largest brightness among the transformed points closer
\* than 0.7 * ledSpacing to its original position, 0 when there is none;
\* processing the points in the opposite order gives the same value.
C13_TargetIsMaxInRange ==
  [][animate =>
       \A c \in DOMAIN ledGrid' :
         /\ ledGrid'[c].targetBrightness
              = MaxOf(InRange(ledGrid[c], Transformed(animatedPoints', playbackState', settings),
                              settings))
         /\ mapPoints(ledGrid, TransformedBackwards(animatedPoints', playbackState', settings),
                      playbackState', settings)[c].targetBrightness
              = ledGrid'[c].targetBrightness]_vars

\* a frame in which an element lies in range of points of different
\* brightness and holds the largest of them
C13_Witness ==
  /\ animatedPoints # <<>>
  /\ \E c \in DOMAIN ledGrid :
       /\ Cardinality(InRange(ledGrid[c], Transformed(animatedPoints, playbackState, settings),
                              settings)) >= 2
       /\ ledGrid[c].targetBrightness
            = MaxOf(InRange(ledGrid[c], Transformed(animatedPoints, playbackState, settings),
                            settings))

\* C14: in combined display mode the blended targetBrightness of every
\* element of the current grid is the maximum of the media brightness and
\* the pattern brightness of that element, and the media grid used for the
\* blend covers every element of the current grid, also on the first frame
\* after a change of gridSize.
C14_CombinedIsMax ==
  [][(animate /\ settings.displayMode = "combined" /\ DOMAIN media'.ditheredGrid # {}) =>
       /\ DOMAIN ledGrid = Cells(settings)
       /\ \A c \in Cells(settings) :
            /\ c \in DOMAIN media'.ditheredGrid
            /\ updateLEDStates(ledGrid, animatedPoints', playbackState', settings,
                               media')[c].targetBrightness
                 = Max(media'.ditheredGrid[c],
                       mapPoints(ledGrid,
                                 Transformed(animatedPoints', playbackState', settings),
                                 playbackState', settings)[c].targetBrightness)
            /\ ~settings.enableFlicker =>
                 ledGrid'[c].targetBrightness
                   = updateLEDStates(ledGrid, animatedPoints', playbackState', settings,
                                     media')[c].targetBrightness]_vars

\* a frame in combined mode on the grid of the other size, in which the
\* media wins on one element and the pattern on another
C14_Witness ==
  /\ settings.displayMode = "combined"
  /\ settings.gridSize = 3
  /\ animatedPoints # <<>>
  /\ DOMAIN media.ditheredGrid = DOMAIN ledGrid
  /\ \E c \in DOMAIN ledGrid :
       /\ media.ditheredGrid[c] = 255000
       /\ ledGrid[c].targetBrightness = 255000
  /\ \E c \in DOMAIN ledGrid :
       /\ media.ditheredGrid[c] = 0
       /\ ledGrid[c].targetBrightness > 0

\* C15: whenever displayMode is 'media', the final targetBrightness of every
\* element of a frame is the value of the media grid for that element
\* (nothing, 0, before a media grid has been loaded): no pattern-derived
\* brightness appears, and flicker or the spiral modifier does not alter
\* the media values.
C15_MediaModeShowsMediaOnly ==
  [][(animate /\ settings.displayMode = "media") =>
       \A c \in DOMAIN ledGrid' :
         ledGrid'[c].targetBrightness
           = IF c \in DOMAIN media'.ditheredGrid THEN media'.ditheredGrid[c] ELSE 0]_vars

\* C16: while a video is the loaded media and media mode is enabled, the
\* media grid is processed again on every other frame: no more than one
\* frame in a row is computed without processing it, so that a refresh
\* follows within two ticks of the previous one.
C16_VideoRefreshedEveryOtherFrame ==
  (settings.enableMediaMode /\ media.mediaElement.type = "video") => media.idleFrames <= 1

(***************************************************************************)
(* Properties of the build-debuild envelope.                               *)
(***************************************************************************)
\* C17: with animationDuration = 1000 ms, build-debuild only and forward
\* playback, the pulseScale a tick computes is 0.2 at currentTime 0, 1.0 at
\* 800 ms, 1.0 at 1000 ms, strictly between 0.2 and 1.0 at 1200 ms, and
\* from 1200 ms to 2000 ms it never increases.
C17_EnvelopeExample ==
  (lastFrameTime = now /\ ~playbackState.isReversed) =>
    /\ playbackState.currentTime = 0 => playbackState.pulseScale = 200
    /\ playbackState.currentTime = 800 * Ms => playbackState.pulseScale = 1000
    /\ playbackState.currentTime = 1000 * Ms => playbackState.pulseScale = 1000
    /\ playbackState.currentTime = 1200 * Ms =>
         (200 < playbackState.pulseScale /\ playbackState.pulseScale < 1000)
    /\ (1200 * Ms <= playbackState.currentTime /\ playbackState.currentTime < 2000 * Ms) =>
         \A t \in EnvelopeTimes :
           (playbackState.currentTime <= t * Ms /\ t <= 2000) =>
             Envelope(CycleTime(t * Ms, settings, FALSE), settings)
               <= playbackState.pulseScale

\* C18: with build-debuild enabled pulseScale is continuous in the cycle
\* time, for forward and for reversed playback: the value a tick computes
\* differs by at most 0.01 from the value one millisecond earlier and one
\* millisecond later, in particular across the growth/hold boundary (0.8 x
\* duration), the hold/shrink boundary (1.2 x duration) and the cycle wrap.
C18_EnvelopeContinuous ==
  (lastFrameTime = now /\ settings.enableBuildDebuild) =>
    /\ Abs(playbackState.pulseScale
             - Envelope(CycleTime(playbackState.currentTime + Ms, settings,
                                  playbackState.isReversed), settings)) <= 10
    /\ playbackState.currentTime >= Ms =>
         Abs(playbackState.pulseScale
               - Envelope(CycleTime(playbackState.currentTime - Ms, settings,
                                    playbackState.isReversed), settings)) <= 10

\* a reversed tick one millisecond after the instant at which the reversed
\* cycle time crosses the hold/shrink boundary, in the shrink phase
C18_Witness ==
  /\ lastFrameTime = now
  /\ playbackState.isReversed
  /\ playbackState.currentTime = 801 * Ms
  /\ cycleTime = 1199 * Ms
  /\ playbackState.pulseScale = 1000

\* C19: a settings update (a store change that passes the whole settings
\* record to engine.updateSettings) triggers a side effect only for a value
\* that changes: the element grid is left untouched unless gridSize or
\* ledSpacing differs, the base shape unless innerRadius or outerRadius
\* differs, and no media load is started and the loaded media is kept
\* unless mediaUrl or mediaType differs.
C19_SideEffectsOnlyOnChange ==
  [][(inputs' = inputs + 1) =>
       /\ (settings'.gridSize = settings.gridSize
             /\ settings'.ledSpacing = settings.ledSpacing) => ledGrid' = ledGrid
       /\ (settings'.innerRadius = settings.innerRadius
             /\ settings'.outerRadius = settings.outerRadius) => shape' = shape
       /\ (settings'.mediaUrl = settings.mediaUrl
             /\ settings'.mediaType = settings.mediaType) =>
            (media'.loads = media.loads /\ media'.mediaElement = media.mediaElement)]_vars

\* C20: when a media load fails (error event of the image or video), the
\* promise of loadMedia is rejected and the engine's ledGrid, ditheredGrid,
\* mediaFrameCount and mediaElement are left exactly as they were: what was
\* shown before the failed load stays; and the call of loadMedia itself
\* changes none of them before the event arrives.
C20_FailedLoadKeepsMedia ==
  [][/\ (\E i \in 1..Len(media.loads) :
           media'.loads = Without(media.loads, i) /\ media'.rejected # media.rejected) =>
          /\ media'.rejected = media.rejected + 1
          /\ ledGrid' = ledGrid
          /\ media'.ditheredGrid = media.ditheredGrid
          /\ media'.mediaFrameCount = media.mediaFrameCount
          /\ media'.mediaElement = media.mediaElement
     /\ \A file \in Uploads :
          /\ loadMedia(media, file.url, file.type).ditheredGrid = media.ditheredGrid
          /\ loadMedia(media, file.url, file.type).mediaElement = media.mediaElement
          /\ loadMedia(media, file.url, file.type).mediaFrameCount = media.mediaFrameCount]_vars

\* a load has failed while another media was installed and shown, and that
\* media is still installed
C20_Witness ==
  /\ media.rejected > 0
  /\ media.mediaElement # NoElement
  /\ settings.mediaUrl # media.mediaElement.url
  /\ DOMAIN media.ditheredGrid = DOMAIN ledGrid
  /\ \E c \in DOMAIN ledGrid : ledGrid[c].targetBrightness > 0

(***************************************************************************)
(* Properties of disposal, the toggle keys, brightness and colour.         *)
(***************************************************************************)
\* C21: dispose() is idempotent (a further call changes nothing), and after
\* the first dispose() no frame computation runs again, neither from the
\* animation loop nor from an export loop in progress: the throttle anchor,
\* the grid, the points and the captured frames stay as they are.
C21_NoFrameAfterDispose ==
  [][disposals > 0 =>
       /\ disposals' # disposals =>
            (animationId' = animationId
               /\ UNCHANGED <<now, lastFrameTime, settings, storeSettings, shape,
                              playbackState, store, exportSettings, ledGrid, exp, frames,
                              inputs, cycleTime, media, animatedPoints, overlap, resetAt,
                              history>>)
       /\ lastFrameTime' = lastFrameTime
       /\ ledGrid' = ledGrid
       /\ animatedPoints' = animatedPoints
       /\ frames' = frames]_vars

\* C22: every press of a toggle key (1-4, C, Y, G) flips the engine's
\* current value of the flag of that key and leaves the other settings of
\* the engine alone, so that two presses in a row restore the value.  (A key
\* press is the only input that leaves the store's settings untouched.)
C22_KeyFlipsEngineFlag ==
  [][(inputs' = inputs + 1 /\ storeSettings' = storeSettings) =>
       \E key \in DOMAIN ToggleKeys :
         settings' = [settings EXCEPT ![ToggleKeys[key]] = ~@]]_vars

\* C23: in every reachable state the target brightness and the eased
\* brightness of every grid element lie in [0, 255], whatever patterns,
\* Y-rotation, spiral modifier (intensity 2), flicker and display mode are
\* in use.
C23_BrightnessInRange ==
  \A c \in DOMAIN ledGrid :
    /\ ledGrid[c].targetBrightness >= 0
    /\ ledGrid[c].targetBrightness <= 255000
    /\ ledGrid[c].brightness >= 0
    /\ ledGrid[c].brightness <= 255000

\* a frame has been computed in which the spiral modifier with intensity 2
\* amplified an element beyond 255 and the element was clamped to 255
C23_Witness ==
  /\ settings.enableSpiralModifier
  /\ settings.spiralIntensity = 2000
  /\ ~settings.enableFlicker
  /\ lastFrameTime = now
  /\ \E c \in DOMAIN ledGrid :
       /\ ledGrid[c].targetBrightness = 255000
       /\ applySpiralDistortionUnclamped(
            updateLEDStates(ledGrid, animatedPoints, playbackState, settings, media),
            playbackState, settings)[c].targetBrightness > 255000

\* C24: at the end of a frame the currentColor of an element is ledColor,
\* unless the colour transition is enabled and a point of the pattern pass
\* raised the element's targetBrightness; it is then the colour computed
\* when the brightest point in range raised it.  The media blend, the
\* media-only mode and the modifiers leave the colour alone.
C24_ColorOfWinningPoint ==
  [][animate =>
       \A c \in DOMAIN ledGrid' :
         ledGrid'[c].currentColor
           = IF /\ settings.enableColorTransition
                /\ ~(settings.displayMode = "media" /\ DOMAIN media'.ditheredGrid # {})
                /\ MaxOf(InRange(ledGrid[c],
                                 Transformed(animatedPoints', playbackState', settings),
                                 settings)) > 0
             THEN CycleColor(c, playbackState', settings)
             ELSE settings.ledColor]_vars

\* a frame with the colour transition enabled in which an element in range
\* of points of different brightness carries the cycled colour while another
\* element, raised by no point, keeps ledColor
C24_Witness ==
  /\ settings.enableColorTransition
  /\ lastFrameTime = now
  /\ \E c \in DOMAIN ledGrid :
       /\ Cardinality(InRange(ledGrid[c], Transformed(animatedPoints, playbackState, settings),
                              settings)) >= 2
       /\ ledGrid[c].currentColor = CycleColor(c, playbackState, settings)
       /\ ledGrid[c].currentColor # settings.ledColor
  /\ \E c \in DOMAIN ledGrid :
       /\ InRange(ledGrid[c], Transformed(animatedPoints, playbackState, settings), settings) = {}
       /\ ledGrid[c].currentColor = settings.ledColor

\* the relation between an element before render() and the element after it
NoOvershoot(before, after) ==
  /\ after.targetBrightness = before.targetBrightness
  /\ after.currentColor = before.currentColor
  /\ before.targetBrightness - before.brightness > 100 =>
       /\ after.brightness > before.brightness
       /\ after.brightness < before.targetBrightness
  /\ before.targetBrightness - before.brightness < -100 =>
       /\ after.brightness < before.brightness
       /\ after.brightness > before.targetBrightness
  /\ Abs(before.targetBrightness - before.brightness) <= 100 =>
       after.brightness = before.targetBrightness

\* C25: the render() of a frame never overshoots: an element further than
\* 0.1 from its target moves strictly closer to it and stays on the same
\* side, an element within 0.1 is set to the target, and render() changes
\* neither targetBrightness nor currentColor.  The grid before render() is
\* the one updateAnimation has just computed.
C25_RenderNeverOvershoots ==
  [][animate =>
       \E before \in {applyModifiers(updateLEDStates(ledGrid, animatedPoints', playbackState',
                                                     settings, media'),
                                     playbackState', settings)} :
         /\ DOMAIN before = DOMAIN ledGrid'
         /\ \A c \in DOMAIN before :
              \E led \in {before[c]} :
                /\ ledGrid'[c] = render(c :> led)[c]
                /\ NoOvershoot(led, ledGrid'[c])]_vars

\* after a frame, one element is on its way up to its target and another on
\* its way down
C25_Witness ==
  /\ lastFrameTime = now
  /\ \E c \in DOMAIN ledGrid :
       ledGrid[c].brightness > 0 /\ ledGrid[c].brightness < ledGrid[c].targetBrightness
  /\ \E c \in DOMAIN ledGrid :
       ledGrid[c].brightness > ledGrid[c].targetBrightness

\* C26: while playback is paused every frame computes the same targets, and
\* after finitely many frames the eased brightness of every element equals
\* its targetBrightness exactly and stays equal.
C26_EasingTerminates ==
  <>[](\A c \in DOMAIN ledGrid : ledGrid[c].brightness = ledGrid[c].targetBrightness)

\* many frames after the pause, a lit element has reached its target exactly
C26_Witness ==
  /\ ~playbackState.isPlaying
  /\ lastFrameTime >= 60 + 60 * FrameInterval
  /\ \A c \in DOMAIN ledGrid : ledGrid[c].brightness = ledGrid[c].targetBrightness
  /\ \E c \in DOMAIN ledGrid : ledGrid[c].targetBrightness > 0

(***************************************************************************)
(* Properties of overlapping operations, reset and the undo history.       *)
(***************************************************************************)
\* C27: when a second exportSequence call overlaps a first one, then at the
\* moment both have completed the engine's isPlaying, startTime and
\* currentTime are the values they had before the first call.
C27_OverlapRestoresPlaybackState ==
  [][(/\ exp'.pc = "done"
      /\ overlap'.pc = "done"
      /\ ~(exp.pc = "done" /\ overlap.pc = "done")) =>
       /\ playbackState'.isPlaying = exp'.originalPlaying
       /\ playbackState'.startTime = exp'.originalStartTime
       /\ playbackState'.currentTime = exp'.originalTime]_vars

\* C28: the completion of a superseded media load never takes effect.
\* While the last request was to clear the media (mediaUrl is null) no
\* element is installed and the media grid is empty, even if an earlier load
\* completes; and once every pending load has completed without a failure,
\* the element installed is the one of the last loadMedia call, which is the
\* call for the current mediaUrl.
C28_SupersededLoadIgnored ==
  /\ settings.mediaUrl = "null" =>
       (media.mediaElement = NoElement /\ DOMAIN media.ditheredGrid = {})
  /\ (settings.mediaUrl # "null" /\ media.loads = <<>> /\ media.rejected = 0) =>
       media.mediaElement.url = settings.mediaUrl

\* C29: a reset is durable.  After engine.reset() at wall-clock time resetAt
\* every playing tick computes currentTime <= now - resetAt, and no step, a
\* synchronisation of the store's playback state included, gives the engine
\* a start anchor from before the reset.
C29_ResetDurable ==
  [][resetAt' >= 0 =>
       /\ playbackState'.startTime >= resetAt'
       /\ (lastFrameTime' # lastFrameTime /\ playbackState.isPlaying) =>
            playbackState'.currentTime <= now - resetAt]_vars

\* C30: the UndoRedoManager keeps its history bounded.  The undo stack, and
\* the undo stack and the redo stack together, hold at most maxStackSize
\* commands; a step that empties the redo stack while the undo stack is not
\* empty (an execute) leaves the last maxStackSize commands of the pushed
\* stack, the oldest dropped at the limit; and a step that pops the redo
\* stack (a redo) leaves the undo stack within the limit.
C30_HistoryBounded ==
  [][/\ Len(undoStack') <= maxStackSize'
     /\ Len(undoStack') + Len(redoStack') <= maxStackSize'
     /\ (redoStack' = <<>> /\ undoStack' # <<>>) =>
          /\ Len(undoStack') = Min(Len(undoStack) + 1, maxStackSize)
          /\ \E command \in Commands :
               LET pushed == Append(undoStack, command)
               IN  undoStack' = SubSeq(pushed, Len(pushed) - Len(undoStack') + 1, Len(pushed))
     /\ Len(redoStack') < Len(redoStack) /\ undoStack' # <<>> =>
          Len(undoStack') <= maxStackSize]_vars

\* the undo stack of the largest manager is full, the redo stack emptied by
\* the execute that pushed its top
C30_Witness ==
  /\ maxStackSize = StackLimit
  /\ Len(undoStack) = maxStackSize
  /\ undoStack[1] = "b"
  /\ undoStack[Len(undoStack)] = "c"
  /\ redoStack = <<>>

====
